---- MODULE Spec2Model ----
(***************************************************************************)
(* A model of the radix tree of src/node/flex_ref_2.rs: the tagged         *)
(* reference slots (FlexRef), the reference counted blocks they point to,  *)
(* the node sequence builders, the allocating and the in-place outer       *)
(* combine, find/get/contains_key and the depth first iterator.            *)
(*                                                                         *)
(* A buffer (the Vec<u8> of a NodeSeqBuilder) is modelled as the sequence  *)
(* of the FlexRef slots it encodes, three per node triple (prefix, value,  *)
(* children).  An Arc is modelled as a block of the heap with its strong   *)
(* count; manual_clone / manual_drop act on that count exactly where the   *)
(* code calls them.                                                        *)
(***************************************************************************)
EXTENDS Integers, Sequences, FiniteSets, TLC

VARIABLES heap, tree, ref, last, status, steps, blobs, cur, ids, gb, found, rd, own, ms

vars == <<heap, tree, ref, last, status, steps, blobs, cur, ids, gb, found, rd, own, ms>>

(***************************************************************************)
(* Byte strings                                                            *)
(***************************************************************************)

\* common_prefix: the number of leading positions at which a and b agree
RECURSIVE common_prefix(_, _)
common_prefix(a, b) ==
    IF a = <<>> \/ b = <<>> \/ Head(a) # Head(b) THEN 0
    ELSE 1 + common_prefix(Tail(a), Tail(b))

\* &x[n..]
DropBytes(x, n) == SubSeq(x, n + 1, Len(x))

\* &x[..n]
TakeBytes(x, n) == SubSeq(x, 1, n)

\* n copies of the byte c
Fill(c, n) == [i \in 1..n |-> c]

(***************************************************************************)
(* FlexRef slots: the header byte selects the type, the low six bits the   *)
(* payload length.                                                         *)
(***************************************************************************)

\* the payload length field of a header byte has six bits
InlineLimit == 64

\* FlexRef::slice writes every byte string below this length inline
SliceLimit == 128

NoneRef == [t |-> "None", d |-> <<>>, p |-> 0]

InlineRef(bytes) == [t |-> "Inline", d |-> bytes, p |-> 0]

ArcRef(p) == [t |-> "Arc", d |-> <<>>, p |-> p]

\* make_header_byte: type in the two high bits, length in the six low bits
make_header_byte(t, len) ==
    len + 64 * (CASE t = "None" -> 0 [] t = "Inline" -> 1 [] t = "Arc" -> 2 [] OTHER -> 3)

\* the header byte a slot starts with (an Arc slot holds 8 pointer bytes)
header(x) ==
    CASE x.t = "None" -> make_header_byte("None", 0)
      [] x.t = "Inline" -> make_header_byte("Inline", Len(x.d))
      [] OTHER -> make_header_byte("Arc", 8)

is_none(x) == x.t = "None"

(***************************************************************************)
(* The heap of Arc blocks: H = [b, fl], the blocks and a flag that is "ok" *)
(* until an assertion fails ("panic") or the count of a freed block is     *)
(* touched ("ub").                                                         *)
(***************************************************************************)

FreeBlock == [rc |-> 0, k |-> "free", d |-> <<>>, q |-> <<>>]

\* the address the next allocation returns: the first free one
NewAddr(H) ==
    LET free == {i \in 1..Len(H.b) : H.b[i].k = "free"}
    IN  IF free = {} THEN Len(H.b) + 1 ELSE CHOOSE i \in free : \A j \in free : i <= j

\* Arc::new: a block with strong count 1 at NewAddr(H)
ArcNew(H, k, d, q) ==
    LET blk == [rc |-> 1, k |-> k, d |-> d, q |-> q]
    IN  [H EXCEPT !.b = IF NewAddr(H) > Len(H.b) THEN Append(H.b, blk)
                        ELSE [H.b EXCEPT ![NewAddr(H)] = blk]]

\* manual_clone: Arc::increment_strong_count when the slot is an Arc
manual_clone(H, x) ==
    IF x.t # "Arc" THEN H
    ELSE IF H.b[x.p].k \in {"dead", "free"} THEN [H EXCEPT !.fl = "ub"]
    ELSE [H EXCEPT !.b[x.p].rc = @ + 1]

RECURSIVE manual_drop(_, _)
RECURSIVE drop_all(_, _)

\* manual_drop: Arc::decrement_strong_count when the slot is an Arc; the last
\* count drops the block, and Drop for NodeSeqBuilder drops every slot of it
manual_drop(H, x) ==
    IF x.t # "Arc" THEN H
    ELSE IF H.b[x.p].k \in {"dead", "free"} THEN [H EXCEPT !.fl = "ub"]
    ELSE IF H.b[x.p].rc > 1 THEN [H EXCEPT !.b[x.p].rc = @ - 1]
    ELSE drop_all([H EXCEPT !.b[x.p].rc = 0, !.b[x.p].k = "dead"], H.b[x.p].q)

\* Drop for NodeSeqBuilder: manual_drop of every slot, first to last
drop_all(H, buf) ==
    IF buf = <<>> THEN H ELSE drop_all(manual_drop(H, Head(buf)), Tail(buf))

RECURSIVE clone_all(_, _)
\* Clone for NodeSeqBuilder: manual_clone of every slot
clone_all(H, buf) ==
    IF buf = <<>> THEN H ELSE clone_all(manual_clone(H, Head(buf)), Tail(buf))

\* the bytes of a prefix or value slot (load / load2 / data)
bytes_of(H, x) == IF x.t = "Arc" THEN H.b[x.p].d ELSE x.d

\* TreeChildrenRef::load: the child sequence of a children slot
children_of(H, x) == IF x.t = "Arc" THEN H.b[x.p].q ELSE <<>>

(***************************************************************************)
(* A builder C = [H, t, s, st]: the heap, the Vec being written (the       *)
(* target region [0, t1) of the gap buffer of an in-place builder), the    *)
(* source region [s0, len) of an in-place builder, and "ok" or "err" (a    *)
(* Result::Err on its way out).                                            *)
(***************************************************************************)

Cursor(H, t, s) == [H |-> H, t |-> t, s |-> s, st |-> "ok"]

\* Vec::new on the heap a builder has reached
Fresh(C) == Cursor(C.H, <<>>, <<>>)

\* push / extend_from_slice of one encoded slot
put_slot(C, x) == [C EXCEPT !.t = Append(@, x)]

\* Extendable::push_inline: make_header_byte asserts len < 64
push_inline(C, data) ==
    IF Len(data) < InlineLimit THEN put_slot(C, InlineRef(data))
    ELSE [put_slot(C, InlineRef(data)) EXCEPT !.H.fl = "panic"]

\* Extendable::push_arc of a new Arc
push_arc(C, k, d, q) ==
    [C EXCEPT !.H = ArcNew(@, k, d, q), !.t = Append(@, ArcRef(NewAddr(C.H)))]

\* Extendable::push_arc_or_inline: inline below 64 bytes, a new Arc otherwise
push_arc_or_inline(C, data) ==
    IF Len(data) < InlineLimit THEN push_inline(C, data)
    ELSE push_arc(C, "bytes", data, <<>>)

\* FlexRef::slice: push_inline below 128 bytes, a new Arc otherwise
FlexRef_slice(C, data) ==
    IF Len(data) < SliceLimit THEN push_inline(C, data)
    ELSE push_arc(C, "bytes", data, <<>>)

\* FlexRef::copy_to: manual_clone, then the bytes of the slot are appended
copy_to(C, x) == put_slot([C EXCEPT !.H = manual_clone(@, x)], x)

\* FlexRef::first_u8 of the prefix slot a buffer starts with.  The FlexRef is
\* a view of the whole rest of the buffer, so for an empty inline prefix
\* self.1[1] is the header byte of the slot that follows.
first_u8(H, buf) ==
    LET x == buf[1]
    IN  CASE x.t = "Inline" -> IF x.d # <<>> THEN x.d[1] ELSE header(buf[2])
          [] x.t = "Arc" -> H.b[x.p].d[1]
          [] OTHER -> 0

\* the first node triple of a buffer and the rest (TreeNode::read_one)
FirstNode(buf) == SubSeq(buf, 1, 3)

RestNodes(buf) == SubSeq(buf, 4, Len(buf))

(***************************************************************************)
(* NodeSeqBuilder                                                          *)
(***************************************************************************)

\* NodeSeqBuilder::empty_tree: (empty prefix, no value, no children)
empty_tree == <<InlineRef(<<>>), NoneRef, NoneRef>>

\* NodeSeqBuilder::single: (key, value, no children)
single(H, key, value) ==
    put_slot(push_arc_or_inline(push_arc_or_inline(Cursor(H, <<>>, <<>>), key), value),
             NoneRef)

\* NodeSeqBuilder::push: copy_to of the three slots
push(C, node) == copy_to(copy_to(copy_to(C, node[1]), node[2]), node[3])

\* NodeSeqBuilder::push_shortened: the node with the first n bytes of its
\* prefix stripped
push_shortened(C, node, n) ==
    copy_to(copy_to(IF n > 0 THEN FlexRef_slice(C, DropBytes(bytes_of(C.H, node[1]), n))
                    ELSE copy_to(C, node[1]),
                    node[2]),
            node[3])

Some(v) == [some |-> TRUE, v |-> v]

Nothing == [some |-> FALSE, v |-> <<>>]

\* NodeSeqBuilder::push_value
push_value(C, value) ==
    IF value.some THEN push_arc_or_inline(C, value.v) ELSE put_slot(C, NoneRef)

\* NodeSeqBuilder::push_children
push_children(C, children) ==
    IF children # <<>> THEN push_arc(C, "seq", <<>>, children) ELSE put_slot(C, NoneRef)

\* NodeSeqBuilder::push_new: a fresh prefix, value and child sequence
push_new(C, prefix, value, children) ==
    push_children(push_value(push_arc_or_inline(C, prefix), value), children)

\* target.push_new(prefix, value, children) for the children a builder K holds
push_new_from(K, target, prefix, value) ==
    push_new([K EXCEPT !.t = target], prefix, value, K.t)

\* the end of the scope of a local NodeSeqBuilder
release(K, buf) == [K EXCEPT !.H = drop_all(@, buf)]

(***************************************************************************)
(* The combine functions the callers pass: take the right value, take the  *)
(* left value, drop the entry (None), or fail (Err).                       *)
(***************************************************************************)

\* a combine function that drops every entry the two trees share
ApplyF_Drop(f, av, bv) == Nothing

ApplyF(f, av, bv) ==
    CASE f = "right" -> Some(bv)
      [] f = "left" -> Some(av)
      [] OTHER -> Nothing

\* TreeValueOptRef::load
load_value(H, x) == IF is_none(x) THEN Nothing ELSE Some(bytes_of(H, x))

(***************************************************************************)
(* The allocating merge                                                    *)
(***************************************************************************)

RECURSIVE outer_combine(_, _, _, _)
RECURSIVE outer_combine_children(_, _, _, _)

\* outer_combine: the node for a and b is pushed to the target C.t
outer_combine(C, a, b, f) ==
    LET ap == bytes_of(C.H, a[1])
        bp == bytes_of(C.H, b[1])
        n  == common_prefix(ap, bp)
        prefix == TakeBytes(ap, n)
    IN  IF n = Len(ap) /\ n = Len(bp) THEN
            LET value == CASE ~is_none(a[2]) /\ ~is_none(b[2]) ->
                                ApplyF(f, bytes_of(C.H, a[2]), bytes_of(C.H, b[2]))
                           [] ~is_none(a[2]) -> Some(bytes_of(C.H, a[2]))
                           [] ~is_none(b[2]) -> Some(bytes_of(C.H, b[2]))
                           [] OTHER -> Nothing
            IN  push_new_from(outer_combine_children(Fresh(C), children_of(C.H, a[3]),
                                                     children_of(C.H, b[3]), f),
                              C.t, prefix, value)
        ELSE IF n = Len(ap) THEN
            LET bc == push_shortened(Fresh(C), b, n)
            IN  release(push_new_from(outer_combine_children(Fresh(bc), children_of(C.H, a[3]),
                                                             bc.t, f),
                                      C.t, prefix, load_value(C.H, a[2])),
                        bc.t)
        ELSE IF n = Len(bp) THEN
            LET ac == push_shortened(Fresh(C), a, n)
            IN  release(push_new_from(outer_combine_children(Fresh(ac), ac.t,
                                                             children_of(C.H, b[3]), f),
                                      C.t, prefix, load_value(C.H, b[2])),
                        ac.t)
        ELSE
            LET fst == IF ap[n + 1] <= bp[n + 1] THEN a ELSE b
                snd == IF ap[n + 1] <= bp[n + 1] THEN b ELSE a
            IN  push_new_from(push_shortened(push_shortened(Fresh(C), fst, n), snd, n),
                              C.t, prefix, Nothing)

\* outer_combine_children: the sorted join (OuterJoin::next0) of two child
\* sequences, by the first byte of each prefix; the result grows in C.t
outer_combine_children(C, ac, bc, f) ==
    IF ac # <<>> /\ bc # <<>> THEN
        IF first_u8(C.H, ac) < first_u8(C.H, bc)
        THEN outer_combine_children(push(C, FirstNode(ac)), RestNodes(ac), bc, f)
        ELSE IF first_u8(C.H, ac) > first_u8(C.H, bc)
        THEN outer_combine_children(push(C, FirstNode(bc)), ac, RestNodes(bc), f)
        ELSE outer_combine_children(outer_combine(C, FirstNode(ac), FirstNode(bc), f),
                                    RestNodes(ac), RestNodes(bc), f)
    ELSE IF ac # <<>> THEN
        outer_combine_children(push(C, FirstNode(ac)), RestNodes(ac), bc, f)
    ELSE IF bc # <<>> THEN
        outer_combine_children(push(C, FirstNode(bc)), ac, RestNodes(bc), f)
    ELSE C

(***************************************************************************)
(* The in-place builder                                                    *)
(***************************************************************************)

\* move_prefix / move_value / move_children: forward one slot
move_slot(C) == [C EXCEPT !.t = Append(@, Head(C.s)), !.s = Tail(@)]

\* drop_current: manual_drop of the peeked slot, then drop(len)
drop_current(C) == [C EXCEPT !.H = manual_drop(@, Head(C.s)), !.s = Tail(@)]

\* push_prefix_ref, push_value: drop_current, then push_arc_or_inline
push_ref(C, data) == push_arc_or_inline(drop_current(C), data)

\* push_value_none, push_empty: drop_current, then push_none
push_none(C) == put_slot(drop_current(C), NoneRef)

\* push_value_opt
push_value_opt(C, value) == IF value.some THEN push_ref(C, value.v) ELSE push_none(C)

\* push_converted of a value: drop_current, manual_clone, extend_from_slice
push_converted(C, x) == copy_to(drop_current(C), x)

\* push_new_arc: drop_current, then push_arc of the new Arc
push_new_arc(C, q) ==
    [drop_current([C EXCEPT !.H = ArcNew(@, "seq", <<>>, q)])
        EXCEPT !.t = Append(@, ArcRef(NewAddr(C.H)))]

\* set_new_arc: as push_new_arc, and the cursor goes back before the slot
set_new_arc(C, q) ==
    [drop_current([C EXCEPT !.H = ArcNew(@, "seq", <<>>, q)])
        EXCEPT !.s = <<ArcRef(NewAddr(C.H))>> \o @]

\* a local builder takes a reference of its own to a slot (push_value_ref,
\* push_children_ref of the child builder)
retain(C, x) == [C EXCEPT !.H = manual_clone(@, x)]

\* InPlaceNodeSeqBuilder::move_one
move_one(C) == move_slot(move_slot(move_slot(C)))

\* InPlaceFlexRefSeqBuilder::rewind(to): the target slots after position to
\* go back to the front of the source
rewind(C, to) ==
    [C EXCEPT !.t = SubSeq(C.t, 1, to),
              !.s = SubSeq(C.t, to + 1, Len(C.t)) \o C.s]

\* InPlaceFlexRefSeqBuilder::rewind_all: rewind(self.target_slice().len())
rewind_all(C) == rewind(C, Len(C.t))

\* TreePrefixRef::is_empty of the peeked prefix: first_opt().is_none(), where
\* first_u8_opt of an inline slot is self.1.get(1), the byte after the header
prefix_is_empty(C) ==
    LET x == Head(C.s)
    IN  CASE x.t = "None" -> TRUE
          [] x.t = "Inline" -> x.d = <<>> /\ Len(C.s) = 1
          [] OTHER -> C.H.b[x.p].d = <<>>

\* InPlaceNodeSeqBuilder::canonicalize_one
canonicalize_one(C) ==
    IF is_none(C.s[2]) /\ is_none(C.s[3]) /\ ~prefix_is_empty(C)
    THEN push_none(push_none(push_ref(rewind(move_one(C), Len(C.t)), <<>>)))
    ELSE move_one(C)

RECURSIVE canonicalize_all(_)
\* InPlaceNodeSeqBuilder::canonicalize_all
canonicalize_all(C) ==
    IF C.s = <<>> THEN C ELSE canonicalize_all(canonicalize_one(C))

\* InPlaceNodeSeqBuilder::insert_converted: the prefix bytes are copied as
\* they are, the value and the children after manual_clone
insert_converted(C, node) ==
    [C EXCEPT !.H = manual_clone(manual_clone(@, node[2]), node[3]),
              !.t = @ \o node]

\* TreePrefixRef::manual_drop: the count of the block goes down as the count
\* of an Arc<Vec<u8>>, so the last count frees the block as a byte vector and
\* the slots a child sequence holds are not released
prefix_manual_drop(H, x) ==
    IF x.t # "Arc" THEN H
    ELSE IF H.b[x.p].k \in {"dead", "free"} THEN [H EXCEPT !.fl = "ub"]
    ELSE IF H.b[x.p].rc > 1 THEN [H EXCEPT !.b[x.p].rc = @ - 1]
    ELSE [H EXCEPT !.b[x.p].rc = 0, !.b[x.p].k = "dead"]

RECURSIVE prefix_drop_all(_, _)
prefix_drop_all(H, buf) ==
    IF buf = <<>> THEN H
    ELSE prefix_drop_all(prefix_manual_drop(H, Head(buf)), Tail(buf))

\* Drop for InPlaceNodeSeqBuilder: the target slots, then the source slots;
\* the position counter i stays 0, so every slot is dropped as a prefix
builder_drop(C) == prefix_drop_all(prefix_drop_all(C.H, C.t), C.s)

\* take_arc: the Arc of the peeked children slot moves to the caller (p) and
\* the slot becomes the "no children" placeholder
take_arc(C) ==
    LET v == Head(C.s)
    IN  [C |-> [C EXCEPT !.H = IF v.t = "Arc" THEN manual_drop(manual_clone(@, v), v)
                               ELSE ArcNew(@, "seq", <<>>, <<>>),
                         !.s = <<NoneRef>> \o Tail(@)],
         p |-> IF v.t = "Arc" THEN v.p ELSE NewAddr(C.H)]

\* Arc::make_mut: a block that is not uniquely held is cloned (Clone for
\* NodeSeqBuilder retains every slot) and the old one released
make_mut(H, p) ==
    IF H.b[p].rc = 1 THEN [H |-> H, p |-> p]
    ELSE [H |-> manual_drop(ArcNew(clone_all(H, H.b[p].q), "seq", <<>>, H.b[p].q),
                            ArcRef(p)),
          p |-> NewAddr(H)]

(***************************************************************************)
(* The in-place merge                                                      *)
(***************************************************************************)

RECURSIVE outer_combine_with(_, _, _)
RECURSIVE outer_combine_children_with(_, _, _)
RECURSIVE combiner_loop(_, _, _)
RECURSIVE mutate(_, _, _)

\* outer_combine_with: the triple at the cursor is merged with the node b
outer_combine_with(C, b, f) ==
    LET ap == bytes_of(C.H, C.s[1])
        bp == bytes_of(C.H, b[1])
        n  == common_prefix(ap, bp)
        av == C.s[2]
        ac == C.s[3]
        bc == children_of(C.H, b[3])
    IN  IF n = Len(ap) /\ n = Len(bp) THEN
            IF ~is_none(av) /\ ~is_none(b[2]) THEN
                IF f = "err" THEN [move_slot(C) EXCEPT !.st = "err"]
                ELSE outer_combine_children_with(
                         push_value_opt(move_slot(C),
                                        ApplyF(f, bytes_of(C.H, av), bytes_of(C.H, b[2]))),
                         bc, f)
            ELSE IF ~is_none(av) THEN
                outer_combine_children_with(move_slot(move_slot(C)), bc, f)
            ELSE
                outer_combine_children_with(push_converted(move_slot(C), b[2]), bc, f)
        ELSE IF n = Len(ap) THEN
            LET short == push_shortened(Fresh(C), b, n)
            IN  release(outer_combine_children_with(
                            [move_slot(move_slot(C)) EXCEPT !.H = short.H], short.t, f),
                        short.t)
        ELSE IF n = Len(bp) THEN
            LET child == push_arc_or_inline(Fresh(C), DropBytes(ap, n))
            IN  outer_combine_children_with(
                    set_new_arc(retain(push_converted(
                                           retain(push_ref([C EXCEPT !.H = child.H],
                                                           TakeBytes(ap, n)), av),
                                           b[2]), ac),
                                child.t \o <<av, ac>>),
                    bc, f)
        ELSE
            LET child == push_arc_or_inline(Fresh(C), DropBytes(ap, n))
                node  == child.t \o <<av, ac>>
                a2    == retain(push_none(retain(push_ref([C EXCEPT !.H = child.H],
                                                          TakeBytes(ap, n)), av)), ac)
                children == IF ap[n + 1] <= bp[n + 1]
                            THEN push_shortened(push(Fresh(a2), node), b, n)
                            ELSE push(push_shortened(Fresh(a2), b, n), node)
            IN  release(push_new_arc([a2 EXCEPT !.H = children.H], children.t), node)

\* outer_combine_children_with: the children slot at the cursor is merged
\* with the child sequence bc
outer_combine_children_with(C, bc, f) ==
    IF bc = <<>> THEN move_slot(C)
    ELSE IF is_none(Head(C.s)) THEN push_new_arc([C EXCEPT !.H = clone_all(@, bc)], bc)
    ELSE mutate(C, bc, f)

\* mutate, Ok: rewind_all, canonicalize_all, and the Arc goes back to the
\* slot (push_new_arc) or, if nothing is left, away (push_empty)
mutate_ok(self, p, done) ==
    IF done.t # <<>>
    THEN put_slot(drop_current([self EXCEPT !.H = [done.H EXCEPT !.b[p].q = done.t]]),
                  ArcRef(p))
    ELSE push_none([self EXCEPT !.H = manual_drop([done.H EXCEPT !.b[p].q = done.t],
                                                  ArcRef(p))])

\* mutate, after the closure: Err drops the builder and the Arc, and the
\* placeholder take_arc left is moved
mutate_end(self, p, r) ==
    IF r.st = "ok" THEN mutate_ok(self, p, canonicalize_all(rewind_all(r)))
    ELSE [move_slot(self) EXCEPT !.H = manual_drop(builder_drop(r), ArcRef(p)),
                                 !.st = "err"]

\* mutate, the closure on the builder over the uniquely held sequence
mutate_run(self, mm, bc, f) ==
    mutate_end(self, mm.p,
               combiner_loop(Cursor([mm.H EXCEPT !.b[mm.p].q = <<>>], <<>>,
                                    mm.H.b[mm.p].q),
                             bc, f))

\* mutate, Arc::make_mut of the taken Arc
mutate_arc(ta, bc, f) == mutate_run(ta.C, make_mut(ta.C.H, ta.p), bc, f)

\* mutate, with the closure outer_combine_children_with passes to it
mutate(C, bc, f) == mutate_arc(take_arc(C), bc, f)

\* the `?` after outer_combine_with in the loop of the closure
combiner_next(r, bc, f) == IF r.st = "err" THEN r ELSE combiner_loop(r, bc, f)

\* the loop over Combiner::cmp in the closure passed to mutate
combiner_loop(C, bc, f) ==
    IF C.s = <<>> /\ bc = <<>> THEN C
    ELSE LET ord == IF bc = <<>> THEN "Less"
                    ELSE IF C.s = <<>> THEN "Greater"
                    ELSE IF first_u8(C.H, C.s) < first_u8(C.H, bc) THEN "Less"
                    ELSE IF first_u8(C.H, C.s) > first_u8(C.H, bc) THEN "Greater"
                    ELSE "Equal"
         IN  IF ord = "Less" THEN combiner_loop(move_one(C), bc, f)
             ELSE IF ord = "Greater"
             THEN combiner_loop(insert_converted(C, FirstNode(bc)), RestNodes(bc), f)
             ELSE combiner_next(outer_combine_with(C, FirstNode(bc), f), RestNodes(bc), f)

(***************************************************************************)
(* Find, get, contains_key                                                 *)
(***************************************************************************)

\* FlexRef::first_u8_opt of the prefix a buffer starts with, -1 for None
first_u8_opt(H, buf) ==
    LET x == buf[1]
    IN  CASE x.t = "None" -> -1
          [] x.t = "Inline" -> IF x.d # <<>> THEN x.d[1]
                               ELSE IF Len(buf) > 1 THEN header(buf[2]) ELSE -1
          [] OTHER -> IF H.b[x.p].d # <<>> THEN H.b[x.p].d[1] ELSE -1

\* a lookup that takes the first sibling whatever its first byte
NodeSeqRef_first(H, seq, first) == IF seq = <<>> THEN <<>> ELSE FirstNode(seq)

RECURSIVE NodeSeqRef_find(_, _, _)
\* NodeSeqRef::find: the first sibling whose prefix starts with the byte,
\* giving up at the first sibling that starts with a greater byte
NodeSeqRef_find(H, seq, first) ==
    IF seq = <<>> THEN <<>>
    ELSE LET fo == first_u8_opt(H, seq)
         IN  IF fo = first THEN FirstNode(seq)
             ELSE IF fo > first THEN <<>>
             ELSE NodeSeqRef_find(H, RestNodes(seq), first)

RECURSIVE find(_, _, _)
\* find: Found(node), Prefix{node, rt} or NotFound
find(H, node, prefix) ==
    LET tree_prefix == bytes_of(H, node[1])
        n  == common_prefix(tree_prefix, prefix)
        rt == Len(tree_prefix) - n
        rp == Len(prefix) - n
    IN  IF rp = 0 /\ rt = 0 THEN [r |-> "Found", node |-> node, rt |-> 0]
        ELSE IF rp = 0 THEN [r |-> "Prefix", node |-> node, rt |-> rt]
        ELSE IF rt = 0 THEN
            LET child == NodeSeqRef_find(H, children_of(H, node[3]), prefix[n + 1])
            IN  IF child # <<>> THEN find(H, child, DropBytes(prefix, n))
                ELSE [r |-> "NotFound", node |-> <<>>, rt |-> 0]
        ELSE [r |-> "NotFound", node |-> <<>>, rt |-> 0]

\* Tree::try_get; Tree::node unwraps the root triple
try_get(H, root, key) ==
    IF root = <<>> THEN [st |-> "panic", v |-> Nothing]
    ELSE LET fr == find(H, FirstNode(root), key)
         IN  [st |-> "ok",
              v |-> IF fr.r = "Found" THEN load_value(H, fr.node[2]) ELSE Nothing]

\* how many nested calls the stack holds before it overflows
MaxStack == 4

RECURSIVE FlexRef_is_some(_, _)
\* FlexRef::is_some: !self.is_some(), at stack depth d
FlexRef_is_some(x, d) ==
    IF d >= MaxStack THEN "overflow"
    ELSE LET r == FlexRef_is_some(x, d + 1)
         IN  IF r = "overflow" THEN r ELSE IF r = "true" THEN "false" ELSE "true"

\* Tree::try_contains_key: "true", "false", or the call that does not return
try_contains_key(H, root, key) ==
    IF root = <<>> THEN "panic"
    ELSE LET fr == find(H, FirstNode(root), key)
         IN  IF fr.r = "Found" THEN FlexRef_is_some(fr.node[2], 0) ELSE "false"

(***************************************************************************)
(* Iter                                                                    *)
(***************************************************************************)

Frame(plen, value, buf) == [plen |-> plen, value |-> value, buf |-> buf]

RECURSIVE iter_run(_, _, _, _)
\* Iter::next0 called until it returns None: the stack of (prefix length,
\* pending value, child cursor), the path, and the pairs yielded so far
iter_run(H, stack, path, out) ==
    IF stack = <<>> THEN out
    ELSE LET top  == stack[Len(stack)]
             rest == SubSeq(stack, 1, Len(stack) - 1)
         IN  IF top.buf # <<>> THEN
                 LET node   == FirstNode(top.buf)
                     prefix == bytes_of(H, node[1])
                     adv    == [top EXCEPT !.buf = RestNodes(top.buf)]
                 IN  iter_run(H,
                              rest \o <<adv, Frame(Len(prefix), node[2],
                                                   children_of(H, node[3]))>>,
                              path \o prefix, out)
             ELSE IF ~is_none(top.value) THEN
                 iter_run(H, rest \o <<[top EXCEPT !.value = NoneRef]>>, path,
                          Append(out, <<path, bytes_of(H, top.value)>>))
             ELSE
                 iter_run(H, rest, SubSeq(path, 1, Len(path) - top.plen), out)

\* Tree::iter collected: the sequence of (key, value) pairs in yield order
Iterate(H, root) == iter_run(H, <<Frame(0, NoneRef, root)>>, <<>>, <<>>)

\* to_btree_map of the tests: the pairs as a set
ToMap(H, root) == LET it == Iterate(H, root) IN {it[i] : i \in 1..Len(it)}

(***************************************************************************)
(* Tree                                                                    *)
(***************************************************************************)

\* Tree::try_outer_combine_with, after outer_combine_with: on Ok the result
\* is stored back (take_result), on Err the builder is dropped and the tree
\* keeps the empty Vec
into_inner(r) ==
    IF r.st = "ok" THEN r ELSE [r EXCEPT !.H = builder_drop(r), !.t = <<>>]

\* Tree::try_outer_combine_with: the root buffer is taken into the builder
try_outer_combine_with(H, node, that, f) ==
    IF node = <<>> \/ that = <<>>
    THEN Cursor([H EXCEPT !.fl = "panic"], node, <<>>)
    ELSE into_inner(outer_combine_with(Cursor(H, <<>>, node), FirstNode(that), f))

\* Tree::outer_combine: the merge goes to a fresh NodeSeqBuilder
try_outer_combine(H, node, that, f) ==
    IF node = <<>> \/ that = <<>>
    THEN Cursor([H EXCEPT !.fl = "panic"], <<>>, <<>>)
    ELSE outer_combine(Cursor(H, <<>>, <<>>), FirstNode(node), FirstNode(that), f)

\* one round of from_iter: outer_combine_with a temporary Tree::single,
\* taking the right value, and the temporary is dropped
from_iter_step(H, node, key, value) ==
    LET tmp == single(H, key, value)
    IN  release(try_outer_combine_with(tmp.H, node, tmp.t, "right"), tmp.t)

(***************************************************************************)
(* The bounded universe                                                    *)
(***************************************************************************)

\* the number of operations of a run
MaxSteps == 5

\* the length of the tail of the long key
LongTail == 64

LongKey == <<1>> \o Fill(9, LongTail)

KeySeq == <<<<>>, <<1>>, <<1, 2>>, <<2>>, LongKey>>

Keys == {KeySeq[i] : i \in 1..Len(KeySeq)}

KeyIx(k) == CHOOSE i \in 1..Len(KeySeq) : KeySeq[i] = k

\* the tree variables: a and b are built from entries, c holds a clone or the
\* result of the allocating merge
Trees == {"a", "b", "c"}

Built == {"a", "b"}

\* the value an entry of a built tree has: different for every key and tree,
\* and one of each tree is too long to be stored inline
ValueOf(n, k) ==
    IF n = "a" /\ k = <<1, 2>> THEN Fill(7, InlineLimit)
    ELSE IF n = "b" /\ k = <<2>> THEN Fill(8, InlineLimit)
    ELSE <<(IF n = "a" THEN 10 ELSE 20) + KeyIx(k)>>

\* the combine functions of try_outer_combine_with, and the infallible ones
Fs == {"right", "left", "none", "err"}

PureFs == {"right", "left", "none"}

\* what a freed block reads as when something other than the stale bytes
GarbageBytes == <<0>>

(***************************************************************************)
(* The reference maps (the BTreeMap of the tests), as sets of pairs        *)
(***************************************************************************)

KeysOf(M) == {e[1] : e \in M}

RefInsert(M, k, v) == {e \in M : e[1] # k} \cup {<<k, v>>}

RefUnion(A, B, f) ==
    CASE f = "right" -> B \cup {e \in A : e[1] \notin KeysOf(B)}
      [] f = "left" -> A \cup {e \in B : e[1] \notin KeysOf(A)}
      [] OTHER -> {e \in A : e[1] \notin KeysOf(B)} \cup {e \in B : e[1] \notin KeysOf(A)}

(***************************************************************************)
(* The heap between operations                                             *)
(***************************************************************************)

\* the slots that are alive: those of the trees and of the counted blocks
LiveSlots(H, tr) ==
    LET inTrees  == UNION {{tr[n].node[i] : i \in 1..Len(tr[n].node)} : n \in Trees}
        inBlocks == UNION {{H.b[j].q[i] : i \in 1..Len(H.b[j].q)} :
                           j \in {j \in 1..Len(H.b) : H.b[j].rc > 0}}
    IN  inTrees \cup inBlocks

Referenced(H, tr, p) == ArcRef(p) \in LiveSlots(H, tr)

RECURSIVE Trim(_)
Trim(bs) ==
    IF bs # <<>> /\ bs[Len(bs)] = FreeBlock THEN Trim(SubSeq(bs, 1, Len(bs) - 1))
    ELSE bs

\* After an operation: the memory of a freed block that nothing points to is
\* returned; a freed block that a live slot still points to reads as the
\* stale bytes (stale) or as something else
Settle(H0, H, tr, stale) ==
    LET fresh(i) == i > Len(H0.b) \/ H0.b[i].k # "dead"
        blk(i) ==
            LET x == H.b[i]
            IN  IF x.k # "dead" THEN x
                ELSE IF ~Referenced(H, tr, i) THEN FreeBlock
                ELSE IF fresh(i) /\ ~stale
                     THEN [x EXCEPT !.d = GarbageBytes, !.q = <<>>]
                ELSE x
    IN  [H EXCEPT !.b = Trim([i \in 1..Len(H.b) |-> blk(i)])]

(***************************************************************************)
(* The state machine: the operations of Tree on three tree variables       *)
(***************************************************************************)

NoTree == [live |-> FALSE, node |-> <<>>]

\* the handles a caller can hold a Blob in, and the blob owners
MaxBlobs == 3

MaxOwners == 2

Handles == 1..MaxBlobs

Owners == 1..MaxOwners

Extras == 0..1

\* a variable that holds no Blob
NoBlob == [owner |-> 0, extra |-> 0]

\* no blob in any handle, no hook of any owner called yet
NoBlobs ==
    [h |-> [i \in Handles |-> NoBlob],
     inc |-> [o \in Owners |-> 0],
     dec |-> [o \in Owners |-> 0]]

\* no id reference made yet (owned.rs)
NoId == [st |-> "none", v |-> <<>>, r |-> [some |-> FALSE, v |-> <<>>],
         back |-> [some |-> FALSE, v |-> <<>>]]

\* no InPlaceFlexRefSeqBuilder made yet: vec with its capacity, t1, s0, and
\* what a caller keeps across a forward: the target mark and both regions
NoBuilder == [made |-> FALSE, vec |-> <<>>, cap |-> 0, t1 |-> 0, s0 |-> 0,
              marked |-> "no", mark |-> 0, fwd |-> 0, was |-> <<<<>>, <<>>>>]

\* no find call made yet
NoFind == [r |-> "none", node |-> <<>>, rt |-> 0]

\* no read_one call made yet: the buffer given and the Option returned
NoRead == [made |-> FALSE, buffer |-> <<>>,
           res |-> [some |-> FALSE, prefix |-> <<>>, value |-> <<>>,
                    children |-> <<>>, rest |-> <<>>]]

\* no owned TreeNode built yet: the node, the BlobStore it is attached to,
\* what its fields loaded to before the last attach, and the last detach mode
NoOwned == [st |-> "none", node |-> <<>>,
            store |-> [base |-> <<>>, data |-> <<>>],
            before |-> <<>>, recursive |-> FALSE]

\* no VecMergeState made yet: the two SliceIterators a and b, the result r,
\* err, the slices merge was given, the advance calls made with what each
\* returned, and what merge returned
NoMerge == [st |-> "none", a |-> <<>>, b |-> <<>>, r |-> <<>>,
            err |-> [some |-> FALSE, v |-> <<>>], a0 |-> <<>>, b0 |-> <<>>,
            log |-> <<>>, res |-> [ok |-> FALSE, v |-> <<>>]]

\* no iterator open
NoIter == [kind |-> "none", stack |-> <<>>, path |-> <<>>, res |-> "none",
           item |-> <<>>, failed |-> FALSE, after |-> FALSE]

\* the record of the last operation: its name, its arguments, how it ended,
\* the value a get returned, and whether it repeats the call before it
Op(op, n, o, f, k, res) ==
    [op |-> op, n |-> n, o |-> o, f |-> f, k |-> k, res |-> res, val |-> Nothing,
     rep |-> FALSE]

\* the call l is the call made just before, with the same arguments
Repeats(l) ==
    /\ l.op = last.op /\ l.n = last.n /\ l.o = last.o /\ l.f = last.f /\ l.k = last.k

Init ==
    /\ heap = [b |-> <<>>, fl |-> "ok"]
    /\ tree = [n \in Trees |-> NoTree]
    /\ ref = [n \in Trees |-> {}]
    /\ last = Op("init", "", "", "", <<>>, "ok")
    /\ status = "ok"
    /\ steps = 0
    /\ blobs = NoBlobs
    /\ cur = NoIter
    /\ ids = NoId
    /\ gb = NoBuilder
    /\ found = NoFind
    /\ rd = NoRead
    /\ own = NoOwned
    /\ ms = NoMerge

\* the end of an operation: a panic or a touched freed count ends the run
Commit(H, tr, rf, l) ==
    /\ steps' = steps + 1
    /\ last' = [l EXCEPT !.rep = Repeats(l)]
    /\ IF H.fl = "ok"
       THEN /\ \E stale \in BOOLEAN : heap' = Settle(heap, H, tr, stale)
            /\ tree' = tr
            /\ ref' = rf
            /\ status' = "ok"
       ELSE /\ status' = H.fl
            /\ UNCHANGED <<heap, tree, ref>>
    /\ UNCHANGED <<blobs, cur, ids, gb, found, rd, own, ms>>

Ready == status = "ok" /\ steps < MaxSteps

\* Tree::empty
NewEmpty(n) ==
    /\ Ready /\ ~tree[n].live
    /\ Commit(heap, [tree EXCEPT ![n] = [live |-> TRUE, node |-> empty_tree]],
              [ref EXCEPT ![n] = {}], Op("empty", n, "", "", <<>>, "ok"))

\* Tree::single
NewSingle(n, k, v) ==
    /\ Ready /\ ~tree[n].live
    /\ LET r == single(heap, k, v)
       IN  Commit(r.H, [tree EXCEPT ![n] = [live |-> TRUE, node |-> r.t]],
                  [ref EXCEPT ![n] = {<<k, v>>}], Op("single", n, "", "", k, "ok"))

\* the tree n after an in-place operation that ended as the builder r
Stored(n, r, rf, l) == Commit(r.H, [tree EXCEPT ![n].node = r.t], rf, l)

\* one round of from_iter on the tree n
Insert(n, k, v) ==
    /\ Ready /\ tree[n].live
    /\ Stored(n, from_iter_step(heap, tree[n].node, k, v),
              [ref EXCEPT ![n] = RefInsert(@, k, v)], Op("insert", n, "", "right", k, "ok"))

\* the reference map and the record of a try_outer_combine_with that ended
\* as the builder r
Combined(n, o, f, r) ==
    Stored(n, r, [ref EXCEPT ![n] = IF r.st = "ok" THEN RefUnion(@, ref[o], f) ELSE @],
           Op("combine_with", n, o, f, <<>>, r.st))

\* Tree::try_outer_combine_with
CombineWith(n, o, f) ==
    /\ Ready /\ n # o /\ tree[n].live /\ tree[o].live
    /\ Combined(n, o, f, try_outer_combine_with(heap, tree[n].node, tree[o].node, f))

\* the tree d made of the NodeSeqBuilder r
Made(d, r, rf, l) == Commit(r.H, [tree EXCEPT ![d] = [live |-> TRUE, node |-> r.t]], rf, l)

\* Tree::outer_combine into the tree variable d
Combine(n, o, f, d) ==
    /\ Ready /\ tree[n].live /\ tree[o].live /\ ~tree[d].live
    /\ Made(d, try_outer_combine(heap, tree[n].node, tree[o].node, f),
            [ref EXCEPT ![d] = RefUnion(ref[n], ref[o], f)],
            Op("combine", n, o, f, <<>>, "ok"))

\* Clone for Tree (Clone for NodeSeqBuilder retains every root slot)
CloneTree(n, d) ==
    /\ Ready /\ tree[n].live /\ ~tree[d].live
    /\ Commit(clone_all(heap, tree[n].node), [tree EXCEPT ![d] = tree[n]],
              [ref EXCEPT ![d] = ref[n]], Op("clone", n, d, "", <<>>, "ok"))

\* Drop for Tree (Drop for NodeSeqBuilder releases every root slot)
DropTree(n) ==
    /\ Ready /\ tree[n].live
    /\ Commit(drop_all(heap, tree[n].node), [tree EXCEPT ![n] = NoTree],
              [ref EXCEPT ![n] = {}], Op("drop", n, "", "", <<>>, "ok"))

\* Tree::get
Get(n, k) ==
    /\ Ready /\ tree[n].live
    /\ LET r == try_get(heap, tree[n].node, k)
       IN  Commit([heap EXCEPT !.fl = r.st], tree, ref,
                  [Op("get", n, "", "", k, r.st) EXCEPT !.val = r.v])

\* Tree::contains_key
ContainsKey(n, k) ==
    /\ Ready /\ tree[n].live
    /\ LET r == try_contains_key(heap, tree[n].node, k)
       IN  Commit([heap EXCEPT !.fl = IF r \in {"panic", "overflow"} THEN r ELSE "ok"],
                  tree, ref, Op("contains_key", n, "", "", k, r))

Next ==
    \/ \E n \in Built : NewEmpty(n)
    \/ \E n \in Built, k \in Keys : NewSingle(n, k, ValueOf(n, k))
    \/ \E n \in Built, k \in Keys : Insert(n, k, ValueOf(n, k))
    \/ \E n \in {"a", "c"}, f \in Fs : CombineWith(n, "b", f)
    \/ \E f \in PureFs : Combine("a", "b", f, "c")
    \/ CloneTree("a", "c")
    \/ \E n \in Trees : DropTree(n)
    \/ \E n \in Trees, k \in Keys : Get(n, k)
    \/ \E n \in Trees, k \in Keys : ContainsKey(n, k)

Spec == Init /\ [][Next]_vars

(***************************************************************************)
(* from_iter alone: one tree grown from Tree::empty by inserts, and read   *)
(***************************************************************************)

NextFromIter ==
    \/ NewEmpty("a")
    \/ \E n \in Built, k \in Keys : Insert("a", k, ValueOf(n, k))
    \/ \E k \in Keys : Get("a", k)
    \/ \E k \in Keys : ContainsKey("a", k)

SpecFromIter == Init /\ [][NextFromIter]_vars

(***************************************************************************)
(* A tree, its clone, and in-place merges into the clone only              *)
(***************************************************************************)

NextCow ==
    \/ ~tree["c"].live /\ NewEmpty("a")
    \/ ~tree["c"].live /\ \E k \in Keys : NewSingle("b", k, ValueOf("b", k))
    \/ ~tree["c"].live /\ \E k \in Keys : Insert("a", k, ValueOf("a", k))
    \/ CloneTree("a", "c")
    \/ \E k \in Keys : Insert("c", k, ValueOf("b", k))
    \/ \E f \in Fs : CombineWith("c", "b", f)

SpecCow == Init /\ [][NextCow]_vars

(***************************************************************************)
(* What the properties are stated with                                     *)
(***************************************************************************)

\* a < b in the lexicographic order of byte strings
LexLess(a, b) ==
    LET n == common_prefix(a, b)
    IN  IF n = Len(a) THEN n < Len(b)
        ELSE n < Len(b) /\ a[n + 1] < b[n + 1]

\* the keys of a sequence of pairs ascend strictly
Ascending(it) == \A i \in 1..(Len(it) - 1) : LexLess(it[i][1], it[i + 1][1])

\* M[k] as an option
Lookup(M, k) ==
    IF k \in KeysOf(M) THEN Some((CHOOSE e \in M : e[1] = k)[2]) ELSE Nothing

\* no live slot points to a freed block
NoDead == \A p \in 1..Len(heap.b) : heap.b[p].k # "dead"

\* the tree n is alive, has a root and iterates to its reference map
Holds(n) ==
    /\ tree[n].live /\ tree[n].node # <<>>
    /\ ToMap(heap, tree[n].node) = ref[n]

\* what a caller can see of the tree n: its iteration and every get
Obs(H, tr, n) ==
    <<Iterate(H, tr[n].node),
      [k \in Keys |-> IF tr[n].node = <<>> THEN Nothing
                      ELSE try_get(H, tr[n].node, k).v]>>

\* the number of slots of live buffers that point to the block p: those of
\* the tree roots and those of the counted blocks
Holders(H, tr, p) ==
    Cardinality(UNION {{<<n, j>> : j \in {j \in 1..Len(tr[n].node) :
                                              tr[n].node[j] = ArcRef(p)}} :
                       n \in Trees})
    + Cardinality(UNION {{<<b, j>> : j \in {j \in 1..Len(H.b[b].q) :
                                                H.b[b].q[j] = ArcRef(p)}} :
                         b \in {b \in 1..Len(H.b) : H.b[b].rc > 0}})

\* two finished merges ended alike: both completed and iterate to the same
\* mapping, or neither completed
SameOutcome(x, y) ==
    /\ x.H.fl = y.H.fl
    /\ x.H.fl = "ok" => ToMap(x.H, x.t) = ToMap(y.H, y.t)

(***************************************************************************)
(* The properties                                                          *)
(***************************************************************************)

\* C1: a tree built from Tree::empty by outer_combine_with (take right) of
\* one single-entry tree per entry of a mapping M iterates to exactly the
\* entries of M, each once: after Tree::empty and after every insert the
\* call has completed and the iteration of the tree is the reference map.
C1_RoundTrip ==
    (last.op \in {"empty", "insert"}) =>
        /\ status = "ok"
        /\ ToMap(heap, tree["a"].node) = ref["a"]
        /\ Len(Iterate(heap, tree["a"].node)) = Cardinality(ref["a"])

\* C2: for trees a and b that hold the maps A and B, a.outer_combine(b, f)
\* with the take-right (take-left) f completes and yields a tree that
\* iterates to the union of A and B where B (A) wins on the shared keys.
C2_AllocatingUnion ==
    (/\ last.op = "combine" /\ last.f \in {"right", "left"}
     /\ NoDead /\ Holds("a") /\ Holds("b")) =>
        /\ status = "ok"
        /\ ToMap(heap, tree["c"].node) = RefUnion(ref["a"], ref["b"], last.f)

\* C3: for trees a and b that hold the maps A and B, whatever the relation
\* of their root prefixes, a.outer_combine_with(b, take right) completes and
\* leaves a iterating to the union of A and B where B wins.
C3_InPlaceUnion ==
    [][(/\ last'.op = "combine_with" /\ last'.f = "right"
        /\ NoDead /\ Holds(last'.n) /\ Holds(last'.o)) =>
           /\ status' = "ok"
           /\ ToMap(heap', tree'[last'.n].node)
                  = RefUnion(ref[last'.n], ref[last'.o], "right")]_vars

\* C4: the iteration of every tree built by the combine operations yields
\* its keys in strictly ascending lexicographic order, a key before every
\* key it is a proper prefix of.
C4_AscendingIteration ==
    \A n \in Trees :
        (tree[n].live /\ NoDead) => Ascending(Iterate(heap, tree[n].node))

\* C5: for a tree built from a mapping M, get(k) completes and returns the
\* value M[k] when k is a key of M and None otherwise.
C5_GetAgrees ==
    (last.op = "get") =>
        /\ status = "ok"
        /\ last.val = Lookup(ref[last.n], last.k)

\* C6: contains_key(k) completes and returns true exactly when get(k)
\* returns a value.
C6_ContainsKeyAgrees ==
    (last.op = "contains_key") =>
        /\ status = "ok"
        /\ (last.res = "true") = try_get(heap, tree[last.n].node, last.k).v.some

\* C7: once c is a clone of a, an outer_combine_with call on c completes
\* without touching a freed block and leaves the iteration of a and the
\* result of every get on a as they were.
C7_CloneIsolation ==
    [][(tree["c"].live /\ last'.n = "c" /\ last'.op \in {"insert", "combine_with"}) =>
           /\ status' # "ub"
           /\ Obs(heap', tree', "a") = Obs(heap, tree, "a")]_vars

\* C8: between operations the count of every Shared block is the number of
\* live slots that point to it, and no live slot points to a block whose
\* count has reached zero.
C8_CountsBalance ==
    \A p \in 1..Len(heap.b) :
        /\ heap.b[p].k # "dead"
        /\ heap.b[p].k \in {"bytes", "seq"} =>
               heap.b[p].rc = Holders(heap, tree, p)

\* C9: a try_outer_combine_with that returns Err leaves the tree with a
\* root and with the iteration and the get results it had before the call.
C9_ErrLeavesTree ==
    [][(last'.op = "combine_with" /\ last'.res = "err") =>
           /\ tree'[last'.n].node # <<>>
           /\ Obs(heap', tree', last'.n) = Obs(heap, tree, last'.n)]_vars

\* C10: for trees a and b that hold their maps and every f (take right,
\* take left, delete), a.outer_combine(b, f) and outer_combine_with(b, f)
\* on a end alike: both complete and the two trees iterate to the same
\* mapping, or neither completes.
C10_MergesAgree ==
    \A f \in PureFs :
        (NoDead /\ Holds("a") /\ Holds("b")) =>
            SameOutcome(try_outer_combine(heap, tree["a"].node, tree["b"].node, f),
                        try_outer_combine_with(heap, tree["a"].node, tree["b"].node, f))

\* the node triples of a buffer of slots
Triples(buf) == {SubSeq(buf, 3 * i - 2, 3 * i) : i \in 1..(Len(buf) \div 3)}

\* a triple that only carries a non-empty prefix: no value and no children
BarePrefix(node) ==
    /\ ~(node[1].t = "Inline" /\ node[1].d = <<>>)
    /\ is_none(node[2]) /\ is_none(node[3])

\* C11: in every tree reachable through empty, single, outer_combine and
\* outer_combine_with, with any combine function, no node below the root
\* (no triple of a live child sequence) has a non-empty prefix while its
\* value and its children are both absent.
C11_CanonicalForm ==
    \A p \in 1..Len(heap.b) :
        (heap.b[p].k = "seq" /\ heap.b[p].rc > 0) =>
            \A node \in Triples(heap.b[p].q) : ~BarePrefix(node)

\* C12: when a.outer_combine_with(b, take right) has just completed,
\* applying it again with the same b completes and leaves a iterating to
\* the same mapping as after the first application.
C12_Idempotent ==
    [][(/\ last.op = "combine_with" /\ last.f = "right" /\ last.res = "ok"
        /\ last'.op = "combine_with" /\ last'.f = "right" /\ last'.rep) =>
           /\ status' = "ok"
           /\ ToMap(heap', tree'[last'.n].node) = ToMap(heap, tree[last'.n].node)]_vars

\* the second of two equal take-right merges has completed, with a b that
\* holds an entry and a tree that also holds a key b lacks
C12_Witness ==
    /\ last.op = "combine_with" /\ last.f = "right" /\ last.rep /\ status = "ok"
    /\ ToMap(heap, tree[last.n].node) = ref[last.n]
    /\ KeysOf(ref["b"]) # {}
    /\ KeysOf(ref[last.n]) \ KeysOf(ref["b"]) # {}

\* C13: for every tree a and every combine function f, a.outer_combine(b, f)
\* with b = Tree::empty() completes and yields a tree that iterates to the
\* mapping of a, whatever the prefix of a's root.
C13_EmptyIsIdentity ==
    (/\ last.op = "combine" /\ tree["a"].live /\ tree["b"].live
     /\ tree["b"].node = empty_tree) =>
        /\ status = "ok"
        /\ ToMap(heap, tree["c"].node) = ToMap(heap, tree["a"].node)

\* C14: between operations, also after a try_outer_combine_with that
\* returned Err, the root buffer of every tree holds exactly one node
\* triple, and right after Tree::empty it is (empty prefix, no value, no
\* children).
C14_RootIsOneTriple ==
    \A n \in Trees :
        tree[n].live =>
            /\ Len(tree[n].node) = 3
            /\ (last.op = "empty" /\ last.n = n) => tree[n].node = empty_tree

(***************************************************************************)
(* first_value, last_value and filter_prefix                               *)
(***************************************************************************)

\* children.iter().last(): the last triple of a child sequence
LastNode(buf) == SubSeq(buf, Len(buf) - 2, Len(buf))

RECURSIVE first_value(_, _)
\* TreeNode::first_value: the node's own value when it has no children,
\* else the first_value of its first child; unwrap panics on no child
first_value(H, node) ==
    IF is_none(node[3]) THEN [st |-> "ok", v |-> load_value(H, node[2])]
    ELSE IF children_of(H, node[3]) = <<>> THEN [st |-> "panic", v |-> Nothing]
    ELSE first_value(H, FirstNode(children_of(H, node[3])))

\* TreeNode::last_value: the node's own value when it has no children, else
\* the first_value of its last child
last_value(H, node) ==
    IF is_none(node[3]) THEN [st |-> "ok", v |-> load_value(H, node[2])]
    ELSE IF children_of(H, node[3]) = <<>> THEN [st |-> "panic", v |-> Nothing]
    ELSE first_value(H, LastNode(children_of(H, node[3])))

\* Tree::try_first_value; Tree::node unwraps the root triple
try_first_value(H, root) ==
    IF root = <<>> THEN [st |-> "panic", v |-> Nothing]
    ELSE first_value(H, FirstNode(root))

\* Tree::try_last_value
try_last_value(H, root) ==
    IF root = <<>> THEN [st |-> "panic", v |-> Nothing]
    ELSE last_value(H, FirstNode(root))

\* TreeNode::filter_prefix under Tree::try_filter_prefix: the Found and the
\* Prefix arm end in todo!(), the NotFound arm returns the empty tree
try_filter_prefix(H, root, prefix) ==
    IF root = <<>> THEN Cursor([H EXCEPT !.fl = "panic"], <<>>, <<>>)
    ELSE IF find(H, FirstNode(root), prefix).r \in {"Found", "Prefix"}
         THEN Cursor([H EXCEPT !.fl = "panic"], <<>>, <<>>)
    ELSE Cursor(H, empty_tree, <<>>)

\* p is a prefix of the key k
StartsWith(k, p) == common_prefix(k, p) = Len(p)

\* the entries of M whose key starts with p
RefFilter(M, p) == {e \in M : StartsWith(e[1], p)}

\* Tree::first_value
FirstValue(n) ==
    /\ Ready /\ tree[n].live
    /\ LET r == try_first_value(heap, tree[n].node)
       IN  Commit([heap EXCEPT !.fl = r.st], tree, ref,
                  [Op("first_value", n, "", "", <<>>, r.st) EXCEPT !.val = r.v])

\* Tree::last_value
LastValue(n) ==
    /\ Ready /\ tree[n].live
    /\ LET r == try_last_value(heap, tree[n].node)
       IN  Commit([heap EXCEPT !.fl = r.st], tree, ref,
                  [Op("last_value", n, "", "", <<>>, r.st) EXCEPT !.val = r.v])

\* Tree::try_filter_prefix into the tree variable d
FilterPrefix(n, p, d) ==
    /\ Ready /\ tree[n].live /\ ~tree[d].live
    /\ Made(d, try_filter_prefix(heap, tree[n].node, p),
            [ref EXCEPT ![d] = RefFilter(ref[n], p)],
            Op("filter_prefix", n, d, "", p, "ok"))

\* find on the root node of the tree n, as get, contains_key and
\* filter_prefix call it; Tree::node unwraps the root triple
Find(n, p) ==
    /\ Ready /\ tree[n].live
    /\ found' = IF tree[n].node = <<>> THEN NoFind ELSE find(heap, FirstNode(tree[n].node), p)
    /\ status' = IF tree[n].node = <<>> THEN "panic" ELSE "ok"
    /\ steps' = steps + 1
    /\ last' = Op("find", n, "", "", p, "ok")
    /\ UNCHANGED <<heap, tree, ref, blobs, cur, ids, gb, rd, own, ms>>

\* one tree, built by Tree::single or from Tree::empty by inserts, and queried
NextQuery ==
    \/ NewEmpty("a")
    \/ \E k \in Keys : NewSingle("a", k, ValueOf("a", k))
    \/ \E k \in Keys : Insert("a", k, ValueOf("a", k))
    \/ FirstValue("a")
    \/ LastValue("a")
    \/ \E p \in Keys : FilterPrefix("a", p, "c")
    \/ \E p \in Keys : Find("a", p)

SpecQuery == Init /\ [][NextQuery]_vars

\* the smallest and the greatest key of a non-empty map
MinKey(M) == CHOOSE k \in KeysOf(M) : \A j \in KeysOf(M) : j = k \/ LexLess(k, j)

MaxKey(M) == CHOOSE k \in KeysOf(M) : \A j \in KeysOf(M) : j = k \/ LexLess(j, k)

\* C15: first_value() completes and returns the value of the smallest key
\* of the tree, and None for a tree without entries.
C15_FirstValue ==
    (last.op = "first_value") =>
        /\ status = "ok"
        /\ last.val = IF ref[last.n] = {} THEN Nothing
                      ELSE Lookup(ref[last.n], MinKey(ref[last.n]))

\* C16: last_value() completes and returns the value of the greatest key of
\* the tree, and None for a tree without entries.
C16_LastValue ==
    (last.op = "last_value") =>
        /\ status = "ok"
        /\ last.val = IF ref[last.n] = {} THEN Nothing
                      ELSE Lookup(ref[last.n], MaxKey(ref[last.n]))

\* C19: filter_prefix(p) completes and returns a tree whose entries are
\* exactly the entries of the original tree whose key starts with p, under
\* their full keys, and the empty tree when no key starts with p.
C19_FilterPrefix ==
    (last.op = "filter_prefix") =>
        /\ status = "ok"
        /\ tree[last.o].live
        /\ ToMap(heap, tree[last.o].node) = RefFilter(ref[last.n], last.k)
        /\ (RefFilter(ref[last.n], last.k) = {} => tree[last.o].node = empty_tree)

(***************************************************************************)
(* Values                                                                  *)
(***************************************************************************)

RECURSIVE values_run(_, _, _)
\* Values::next0 polled to the end: the top iterator's next node pushes its
\* children and yields its value at once; an exhausted iterator is popped
values_run(H, stack, out) ==
    IF stack = <<>> THEN out
    ELSE LET top  == stack[Len(stack)]
             rest == SubSeq(stack, 1, Len(stack) - 1)
         IN  IF top # <<>> THEN
                 values_run(H,
                            rest \o <<RestNodes(top),
                                      children_of(H, FirstNode(top)[3])>>,
                            IF is_none(FirstNode(top)[2]) THEN out
                            ELSE Append(out, bytes_of(H, FirstNode(top)[2])))
             ELSE values_run(H, rest, out)

\* Tree::values collected: the sequence of values in yield order
ValuesOf(H, root) == values_run(H, <<root>>, <<>>)

\* the values of the pairs of Tree::iter, in yield order
IterValues(H, root) ==
    [i \in 1..Len(Iterate(H, root)) |-> Iterate(H, root)[i][2]]

\* C17: for every tree, values() yields the same sequence of values as the
\* pairs of iter(), element by element.
C17_ValuesAsIter ==
    \A n \in Trees :
        (tree[n].live /\ NoDead) =>
            ValuesOf(heap, tree[n].node) = IterValues(heap, tree[n].node)

(***************************************************************************)
(* Blob and its owner's hooks                                              *)
(***************************************************************************)

\* the end of a Blob call: the trees are not involved
BlobDone(B, op, res) ==
    /\ blobs' = B
    /\ steps' = steps + 1
    /\ last' = Op(op, "", "", "", <<>>, res)
    /\ UNCHANGED <<heap, tree, ref, status, cur, ids, gb, found, rd, own, ms>>

\* an owner no live blob refers to: a newly allocated Arc
FreshOwner(o) == \A i \in Handles : blobs.h[i].owner # o

\* Blob::from_slice into the handle i: a new Arc<Vec<u8>> as the owner,
\* extra 0, no hook called
BlobFromSlice(i) ==
    /\ Ready /\ blobs.h[i] = NoBlob
    /\ \E o \in Owners :
          /\ FreshOwner(o)
          /\ BlobDone([blobs EXCEPT !.h[i] = [owner |-> o, extra |-> 0]],
                      "from_slice", "ok")

\* Blob::new(owner, extra) into the handle i: Err when the owner rejects
\* the extra, else owner.inc(extra) and the blob
BlobNew(i, o, e, valid) ==
    /\ Ready /\ blobs.h[i] = NoBlob
    /\ IF valid
       THEN BlobDone([blobs EXCEPT !.inc[o] = @ + 1,
                                   !.h[i] = [owner |-> o, extra |-> e]],
                     "new", "ok")
       ELSE BlobDone(blobs, "new", "err")

\* the derived Clone of the blob in handle i into the handle j: the Arc of
\* the owner and the extra are cloned field by field
BlobClone(i, j) ==
    /\ Ready /\ blobs.h[i] # NoBlob /\ blobs.h[j] = NoBlob
    /\ BlobDone([blobs EXCEPT !.h[j] = blobs.h[i]], "clone", "ok")

\* Drop for Blob: owner.dec(extra)
BlobDrop(i) ==
    /\ Ready /\ blobs.h[i] # NoBlob
    /\ BlobDone([blobs EXCEPT !.dec[blobs.h[i].owner] = @ + 1,
                              !.h[i] = NoBlob],
                "drop", "ok")

NextBlob ==
    \/ \E i \in Handles : BlobFromSlice(i)
    \/ \E i \in Handles, o \in Owners, e \in Extras, valid \in BOOLEAN :
          BlobNew(i, o, e, valid)
    \/ \E i, j \in Handles : BlobClone(i, j)
    \/ \E i \in Handles : BlobDrop(i)

SpecBlob == Init /\ [][NextBlob]_vars

\* the number of live blobs of the owner o
LiveBlobs(o) == Cardinality({i \in Handles : blobs.h[i].owner = o})

\* C20: for every owner, at every point, the inc hook was called as often
\* as blobs were created or cloned and the dec hook as often as blobs were
\* dropped: inc calls - dec calls is the number of live blobs, and dec was
\* never called more often than inc.
C20_HookBalance ==
    \A o \in Owners :
        /\ blobs.dec[o] <= blobs.inc[o]
        /\ blobs.inc[o] - blobs.dec[o] = LiveBlobs(o)

(***************************************************************************)
(* Iter and Values polled one next() at a time, over a store that may fail *)
(***************************************************************************)

\* a slot of type Id: the payload is held by the store under the id p
IdRef(p) == [t |-> "Id", d |-> <<>>, p |-> p]

\* FlexRef::id_as_slice: with_id(|_| todo!()) panics on a slot of type Id
\* and is None on every other slot
id_as_slice(x) == IF x.t = "Id" THEN "panic" ELSE "none"

\* the outcome of TreePrefixRef::load2 and TreeChildrenRef::load on the
\* slot x: local slots resolve; an Id slot goes through id_as_slice and
\* then store.read, which fails when the store is not up
load_outcome(x, up) ==
    IF x.t # "Id" THEN "ok"
    ELSE IF id_as_slice(x) = "panic" THEN "panic"
    ELSE IF up THEN "ok" ELSE "err"

\* what one call of next0 leaves: the stack, the path and the result
Polled(stack, path, res, item) ==
    [stack |-> stack, path |-> path, res |-> res, item |-> item]

\* the stack with its top iterator advanced by one node
Advance(stack) ==
    [stack EXCEPT ![Len(stack)].buf = RestNodes(stack[Len(stack)].buf)]

RECURSIVE iter_next0(_, _, _, _)
\* Iter::next0: one call, up to the next pair, the end or a failed load
iter_next0(H, stack, path, up) ==
    IF stack = <<>> THEN Polled(stack, path, "none", <<>>)
    ELSE IF stack[Len(stack)].buf # <<>> THEN
        IF load_outcome(FirstNode(stack[Len(stack)].buf)[1], up) # "ok"
        THEN Polled(Advance(stack), path,
                    load_outcome(FirstNode(stack[Len(stack)].buf)[1], up), <<>>)
        ELSE IF load_outcome(FirstNode(stack[Len(stack)].buf)[3], up) # "ok"
        THEN Polled(Advance(stack), path,
                    load_outcome(FirstNode(stack[Len(stack)].buf)[3], up), <<>>)
        ELSE iter_next0(H,
                 Append(Advance(stack),
                        Frame(Len(bytes_of(H, FirstNode(stack[Len(stack)].buf)[1])),
                              FirstNode(stack[Len(stack)].buf)[2],
                              children_of(H, FirstNode(stack[Len(stack)].buf)[3]))),
                 path \o bytes_of(H, FirstNode(stack[Len(stack)].buf)[1]), up)
    ELSE IF ~is_none(stack[Len(stack)].value) THEN
        Polled([stack EXCEPT ![Len(stack)].value = NoneRef], path, "item",
               <<path, bytes_of(H, stack[Len(stack)].value)>>)
    ELSE iter_next0(H, SubSeq(stack, 1, Len(stack) - 1),
                    SubSeq(path, 1, Len(path) - stack[Len(stack)].plen), up)

RECURSIVE values_next0(_, _, _)
\* Values::next0: one call, up to the next value, the end or a failed load
values_next0(H, stack, up) ==
    IF stack = <<>> THEN Polled(stack, <<>>, "none", <<>>)
    ELSE IF stack[Len(stack)].buf # <<>> THEN
        IF load_outcome(FirstNode(stack[Len(stack)].buf)[3], up) # "ok"
        THEN Polled(Advance(stack), <<>>,
                    load_outcome(FirstNode(stack[Len(stack)].buf)[3], up), <<>>)
        ELSE IF ~is_none(FirstNode(stack[Len(stack)].buf)[2])
        THEN Polled(Append(Advance(stack),
                           Frame(0, NoneRef,
                                 children_of(H, FirstNode(stack[Len(stack)].buf)[3]))),
                    <<>>, "item",
                    <<bytes_of(H, FirstNode(stack[Len(stack)].buf)[2])>>)
        ELSE values_next0(H,
                 Append(Advance(stack),
                        Frame(0, NoneRef,
                              children_of(H, FirstNode(stack[Len(stack)].buf)[3]))),
                 up)
    ELSE values_next0(H, SubSeq(stack, 1, Len(stack) - 1), up)

\* the iterator after next() got r from next0: an Err clears the stack
iter_next(c, r) ==
    [kind |-> c.kind,
     stack |-> IF r.res = "err" THEN <<>> ELSE r.stack,
     path |-> r.path, res |-> r.res, item |-> r.item,
     failed |-> c.failed \/ r.res = "err",
     after |-> c.failed]

\* the end of an iterator call
IterDone(c, op, n, st) ==
    /\ cur' = c
    /\ status' = st
    /\ steps' = steps + 1
    /\ last' = Op(op, n, "", "", <<>>, st)
    /\ UNCHANGED <<heap, tree, ref, blobs, ids, gb, found, rd, own, ms>>

\* Tree::try_iter on the tree n
OpenIter(n) ==
    /\ Ready /\ tree[n].live /\ cur.kind = "none"
    /\ IterDone([NoIter EXCEPT !.kind = "iter",
                               !.stack = <<Frame(0, NoneRef, tree[n].node)>>],
                "iter", n, "ok")

\* Tree::try_values on the tree n
OpenValues(n) ==
    /\ Ready /\ tree[n].live /\ cur.kind = "none"
    /\ IterDone([NoIter EXCEPT !.kind = "values",
                               !.stack = <<Frame(0, NoneRef, tree[n].node)>>],
                "values", n, "ok")

\* Iterator::next of Iter and of Values, the store up or not
IterNext(up) ==
    /\ Ready /\ cur.kind # "none"
    /\ LET r == IF cur.kind = "iter"
                THEN iter_next0(heap, cur.stack, cur.path, up)
                ELSE values_next0(heap, cur.stack, up)
       IN  IF r.res = "panic" THEN IterDone(cur, "next", "", "panic")
           ELSE IterDone(iter_next(cur, r), "next", "", "ok")

\* a tree d whose root is the root of n with the prefix slot (w = 1) or the
\* children slot (w = 3) held by the store: the slot of type Id that
\* push_id writes
Attach(n, d, w) ==
    /\ Ready /\ tree[n].live /\ ~tree[d].live /\ cur.kind = "none"
    /\ tree[n].node # <<>>
    /\ tree[n].node[w].t = "Arc"
    /\ Made(d,
            Cursor(clone_all(heap, [tree[n].node EXCEPT ![w] = IdRef(@.p)]),
                   [tree[n].node EXCEPT ![w] = IdRef(@.p)], <<>>),
            [ref EXCEPT ![d] = ref[n]],
            Op("attach", n, d, "", <<>>, "ok"))

\* one tree is built, possibly attached to a store, and iterated
NextIter ==
    \/ cur.kind = "none" /\ ~tree["c"].live /\ NewEmpty("a")
    \/ \E k \in Keys :
          cur.kind = "none" /\ ~tree["c"].live /\ NewSingle("a", k, ValueOf("a", k))
    \/ \E k \in Keys :
          cur.kind = "none" /\ ~tree["c"].live /\ Insert("a", k, ValueOf("a", k))
    \/ \E w \in {1, 3} : Attach("a", "c", w)
    \/ \E n \in {"a", "c"} : OpenIter(n)
    \/ \E n \in {"a", "c"} : OpenValues(n)
    \/ \E up \in BOOLEAN : IterNext(up)

SpecIter == Init /\ [][NextIter]_vars

InlineSlots == {x \in LiveSlots(heap, tree) : x.t = "Inline"}

\* C21: every Inline slot a builder wrote carries at most 63 bytes, and an
\* insert (a merge with a one-entry tree, which splits and shortens
\* prefixes of any length) never fails on the length of a shortened prefix.
C21_InlineBound ==
    /\ \A x \in InlineSlots : Len(x.d) < InlineLimit
    /\ (last.op = "insert") => status # "panic"

(***************************************************************************)
(* owned.rs: the 8-byte FlexRef and its store ids.  A u64 is the sequence  *)
(* of its 8 big-endian bytes.                                              *)
(***************************************************************************)

\* the marker bytes of an id reference: bytes 0 and 7 of ID_MASK
ID_MASK == <<255, 0, 0, 0, 0, 0, 0, 255>>

\* the byte values the u64 inputs are made of
ByteVals == {0, 1, 255}

U64s == [1..8 -> ByteVals]

\* [u8]::rotate_left(1)
rotate_left_1(bytes) == Tail(bytes) \o <<Head(bytes)>>

\* FlexRef::id_from_u64: accepted when byte 0 or byte 1 is zero; the bytes
\* are rotated left by one and bytes 0 and 7 are overwritten by the marker
id_from_u64(value) ==
    IF value[1] = 0 \/ value[2] = 0
    THEN Some([rotate_left_1(value) EXCEPT ![1] = ID_MASK[1], ![8] = ID_MASK[8]])
    ELSE Nothing

\* FlexRef::is_id
is_id(r) == r[1] = ID_MASK[1] /\ r[8] = ID_MASK[8]

\* FlexRef::id_u64: bytes 1..6 of the reference are the low six bytes
id_u64(r) ==
    IF is_id(r) THEN Some(<<0, 0>> \o SubSeq(r, 2, 7)) ELSE Nothing

\* the end of a call on an id reference
IdDone(i, op) ==
    /\ ids' = i
    /\ steps' = steps + 1
    /\ last' = Op(op, "", "", "", <<>>, "ok")
    /\ UNCHANGED <<heap, tree, ref, status, blobs, cur, gb, found, rd, own, ms>>

\* FlexRef::id_from_u64(value), as TreeValue::attach calls it on the id the
\* store returned
IdFromU64(value) ==
    /\ Ready /\ ids.st = "none"
    /\ IdDone([NoId EXCEPT !.st = "made", !.v = value, !.r = id_from_u64(value)],
              "id_from_u64")

\* FlexRef::id_u64 of the reference made
IdU64 ==
    /\ Ready /\ ids.st = "made" /\ ids.r.some
    /\ IdDone([ids EXCEPT !.st = "read", !.back = id_u64(ids.r.v)], "id_u64")

NextId ==
    \/ \E value \in U64s : IdFromU64(value)
    \/ IdU64

SpecId == Init /\ [][NextId]_vars

\* C22: a value that id_from_u64 accepts is decoded by id_u64 to exactly
\* that value.
C22_IdRoundTrip ==
    (ids.st = "read") => ids.back = Some(ids.v)

\* the tree a merge call writes: self of outer_combine_with, the new tree
\* of outer_combine
Target(l) == IF l.op = "combine" THEN "c" ELSE l.n

\* C23: b is the right-hand tree of the merges.  Every merge that writes
\* another tree (a.outer_combine_with(b, f), a.outer_combine(b, f), and any
\* later in-place merge into a or c) leaves the mapping of b unchanged.
C23_RightReadOnly ==
    [][(/\ last'.op \in {"insert", "combine_with", "combine"}
        /\ Target(last') # "b" /\ tree["b"].live) =>
           ToMap(heap', tree'["b"].node) = ToMap(heap, tree["b"].node)]_vars

\* the first byte of the prefix of the i-th node of a child sequence, -1
\* for an empty prefix
FirstByte(H, buf, i) ==
    IF bytes_of(H, buf[3 * i - 2]) = <<>> THEN -1
    ELSE bytes_of(H, buf[3 * i - 2])[1]

\* the first prefix bytes of the siblings of a child sequence are strictly
\* increasing
SiblingsAscend(H, buf) ==
    \A i \in 1..(Len(buf) \div 3 - 1) :
        /\ FirstByte(H, buf, i) >= 0
        /\ FirstByte(H, buf, i) < FirstByte(H, buf, i + 1)

\* C24: in every tree reachable through empty, single, outer_combine and
\* outer_combine_with, the siblings of every child sequence are ordered by
\* the first byte of their prefix, strictly increasing.
C24_SiblingOrder ==
    \A p \in 1..Len(heap.b) :
        (heap.b[p].k = "seq" /\ heap.b[p].rc > 0) => SiblingsAscend(heap, heap.b[p].q)

(***************************************************************************)
(* InPlaceFlexRefSeqBuilder on bytes: vec[..t1] is the target, vec[s0..]   *)
(* the source, the gap between them is uninitialized.  Indices are the     *)
(* 0-based ones of the code; vec[i] of the code is b.vec[i + 1].           *)
(***************************************************************************)

\* the longest vec and the largest count a call is given
MaxVecLen == 5

MaxCount == 2

\* the bytes callers write; reserve fills the gap with 0
DataBytes == {1, 2}

\* the byte strings of length 0..n
BytesUpTo(n) == UNION {[1..m -> DataBytes] : m \in 0..n}

gap(b) == b.s0 - b.t1

target_slice(b) == SubSeq(b.vec, 1, b.t1)

source_slice(b) == SubSeq(b.vec, b.s0 + 1, Len(b.vec))

\* [u8]::copy_within(src..src + n, dest): a memmove
copy_within(vec, src, n, dest) ==
    [i \in 1..Len(vec) |->
        IF dest < i /\ i <= dest + n THEN vec[src + (i - dest)] ELSE vec[i]]

\* Vec::reserve(missing): the capacity afterwards, at least len + missing,
\* slack bytes more when the Vec has to grow
vec_reserve(b, missing, slack) ==
    IF b.cap - Len(b.vec) >= missing THEN b.cap
    ELSE Len(b.vec) + missing + slack

\* a reserve that grows the Vec at its end and leaves s0 where it was
reserve_at_end(b, n, slack) ==
    IF gap(b) >= n THEN b
    ELSE [b EXCEPT
            !.cap = vec_reserve(b, n - gap(b), slack),
            !.vec = b.vec \o Fill(0, vec_reserve(b, n - gap(b), slack) - Len(b.vec))]

\* Extendable::reserve: when the gap is below n, the spare capacity of the
\* grown Vec is spliced in at s0 as zeros and s0 moves behind it
reserve(b, n, slack) ==
    IF gap(b) >= n THEN b
    ELSE [b EXCEPT
            !.cap = vec_reserve(b, n - gap(b), slack),
            !.vec = SubSeq(b.vec, 1, b.s0)
                      \o Fill(0, vec_reserve(b, n - gap(b), slack) - Len(b.vec))
                      \o source_slice(b),
            !.s0 = @ + (vec_reserve(b, n - gap(b), slack) - Len(b.vec))]

\* the bytes data written at t1 of a builder with room for them
write_at_t1(b, data) ==
    [b EXCEPT !.vec = [i \in 1..Len(b.vec) |->
                          IF b.t1 < i /\ i <= b.t1 + Len(data) THEN data[i - b.t1]
                          ELSE b.vec[i]],
              !.t1 = @ + Len(data)]

\* Extendable::push for the in-place builder
vec_push(b, value, slack) == write_at_t1(reserve(b, 1, slack), <<value>>)

\* Extendable::extend_from_slice for the in-place builder
extend_from_slice(b, data, slack) == write_at_t1(reserve(b, Len(data), slack), data)

\* InPlaceFlexRefSeqBuilder::drop
vec_drop(b, n) == [b EXCEPT !.s0 = @ + n]

\* InPlaceFlexRefSeqBuilder::forward
forward(b, n) ==
    IF gap(b) = 0 THEN [b EXCEPT !.t1 = @ + n, !.s0 = @ + n]
    ELSE [b EXCEPT !.vec = copy_within(b.vec, b.s0, n, b.t1),
                   !.t1 = @ + n, !.s0 = @ + n]

\* a rewind that moves the marks and copies nothing
rewind_marks_only(b, to) == [b EXCEPT !.t1 = to, !.s0 = @ - (b.t1 - to)]

\* InPlaceFlexRefSeqBuilder::rewind
vec_rewind(b, to) ==
    IF gap(b) = 0 THEN [b EXCEPT !.t1 = to, !.s0 = @ - (b.t1 - to)]
    ELSE [b EXCEPT !.vec = copy_within(b.vec, to, b.t1 - to, b.s0 - (b.t1 - to)),
                   !.t1 = to, !.s0 = @ - (b.t1 - to)]

\* the end of a call on the builder.  marked follows the caller's mark: taken
\* by a forward, rewound when the next call rewinds to it
BuilderDone(b, op, arg) ==
    /\ gb' = [b EXCEPT !.marked =
                 CASE op = "forward" -> "taken"
                   [] op = "rewind" /\ gb.marked = "taken" /\ arg[1] = gb.mark -> "rewound"
                   [] OTHER -> "no"]
    /\ steps' = steps + 1
    /\ last' = Op(op, "", "", "", arg, IF Len(b.vec) > Len(gb.vec) THEN "grew" ELSE "ok")
    /\ UNCHANGED <<heap, tree, ref, status, blobs, cur, ids, found, rd, own, ms>>

\* InPlaceFlexRefSeqBuilder::new(vec) on a Vec with some spare capacity
BuilderNew(data, spare) ==
    /\ Ready /\ ~gb.made
    /\ BuilderDone([NoBuilder EXCEPT !.made = TRUE, !.vec = data,
                                     !.cap = Len(data) + spare],
                   "new", data)

Reserve(n, slack) ==
    /\ Ready /\ gb.made /\ Len(gb.vec) + n + slack <= MaxVecLen
    /\ BuilderDone(reserve(gb, n, slack), "reserve", <<n>>)

Push(value, slack) ==
    /\ Ready /\ gb.made /\ Len(gb.vec) + 1 + slack <= MaxVecLen
    /\ BuilderDone(vec_push(gb, value, slack), "push", <<value>>)

ExtendFromSlice(data, slack) ==
    /\ Ready /\ gb.made /\ Len(gb.vec) + Len(data) + slack <= MaxVecLen
    /\ BuilderDone(extend_from_slice(gb, data, slack), "extend_from_slice", data)

Drop(n) ==
    /\ Ready /\ gb.made /\ n <= Len(source_slice(gb))
    /\ BuilderDone(vec_drop(gb, n), "drop", <<n>>)

\* forward(n); the caller has taken the target mark before it
Forward(n) ==
    /\ Ready /\ gb.made /\ n <= Len(source_slice(gb))
    /\ BuilderDone([forward(gb, n) EXCEPT
                       !.mark = gb.t1, !.fwd = n,
                       !.was = <<target_slice(gb), source_slice(gb)>>],
                   "forward", <<n>>)

Rewind(to) ==
    /\ Ready /\ gb.made /\ to <= gb.t1
    /\ BuilderDone(vec_rewind(gb, to), "rewind", <<to>>)

NextBuilder ==
    \/ \E data \in BytesUpTo(MaxCount), spare \in 0..1 : BuilderNew(data, spare)
    \/ \E n \in 0..MaxCount, slack \in 0..1 : Reserve(n, slack)
    \/ \E value \in DataBytes, slack \in 0..1 : Push(value, slack)
    \/ \E data \in BytesUpTo(MaxCount), slack \in 0..1 : ExtendFromSlice(data, slack)
    \/ \E n \in 0..MaxCount : Drop(n)
    \/ \E n \in 0..MaxCount : Forward(n)
    \/ \E to \in 0..MaxVecLen : Rewind(to)

SpecBuilder == Init /\ [][NextBuilder]_vars

\* C25: after every call 0 <= t1 <= s0 <= len holds, and reserve, push and
\* extend_from_slice leave the source region and the target bytes written
\* before the call as they were, also when the gap has to grow.
C25_GapBuffer ==
    [][/\ 0 <= gb'.t1 /\ gb'.t1 <= gb'.s0 /\ gb'.s0 <= Len(gb'.vec)
       /\ (last'.op \in {"reserve", "push", "extend_from_slice"}) =>
              /\ source_slice(gb') = source_slice(gb)
              /\ SubSeq(gb'.vec, 1, gb.t1) = target_slice(gb)]_vars

\* a push that had to grow the gap, behind a target and before a source
C25_Witness ==
    /\ last.op = "push" /\ last.res = "grew"
    /\ gb.t1 >= 2 /\ source_slice(gb) # <<>> /\ gap(gb) > 0

\* C26: forward(n) appends the first n source bytes to the target and
\* removes them from the source, and a rewind to the target mark taken
\* before the forward, made right after it, restores both regions.
C26_ForwardRewind ==
    [][/\ (last'.op = "forward") =>
              /\ target_slice(gb') = target_slice(gb) \o TakeBytes(source_slice(gb), last'.k[1])
              /\ source_slice(gb') = DropBytes(source_slice(gb), last'.k[1])
       /\ (gb'.marked = "rewound") =>
              /\ target_slice(gb') = gb.was[1]
              /\ source_slice(gb') = gb.was[2]]_vars

\* a forward of at least one byte over a gap that is not empty was undone
C26_Witness ==
    /\ gb.marked = "rewound" /\ gb.fwd > 0
    /\ source_slice(gb) = gb.was[2] /\ target_slice(gb) = gb.was[1]
    /\ gb.mark > 0 /\ gap(gb) > 0

\* a node of a tree with its full path and the length of its parent's path
Placed(H, node, base) ==
    [path |-> base \o bytes_of(H, node[1]), node |-> node, from |-> Len(base)]

RECURSIVE NodesOf(_, _, _)
\* every node of the sequence buf and below it, the parent's path being base
NodesOf(H, buf, base) ==
    IF buf = <<>> THEN {}
    ELSE {Placed(H, FirstNode(buf), base)}
           \cup NodesOf(H, children_of(H, FirstNode(buf)[3]),
                        base \o bytes_of(H, FirstNode(buf)[1]))
           \cup NodesOf(H, RestNodes(buf), base)

\* the nodes whose full path is the target
Hits(H, root, target) == {x \in NodesOf(H, root, <<>>) : x.path = target}

\* the nodes in whose prefix the target ends
Inside(H, root, target) ==
    {x \in NodesOf(H, root, <<>>) :
        /\ x.from <= Len(target) /\ Len(target) < Len(x.path)
        /\ TakeBytes(x.path, Len(target)) = target}

\* C27: find returns Found(node) when the target is the full path of a
\* node, Prefix{node, rt} when the target ends inside the prefix of a node
\* of which rt bytes remain, and NotFound otherwise.
C27_FindClassifies ==
    (last.op = "find") =>
        /\ status = "ok"
        /\ IF Hits(heap, tree[last.n].node, last.k) # {}
           THEN /\ found.r = "Found"
                /\ \E x \in Hits(heap, tree[last.n].node, last.k) : x.node = found.node
           ELSE IF Inside(heap, tree[last.n].node, last.k) # {}
           THEN /\ found.r = "Prefix"
                /\ \E x \in Inside(heap, tree[last.n].node, last.k) :
                      x.node = found.node /\ found.rt = Len(x.path) - Len(last.k)
           ELSE found.r = "NotFound"

\* a find went down to a child and ended inside the child's prefix
C27_Witness ==
    /\ last.op = "find" /\ status = "ok" /\ last.k # <<>>
    /\ found.r = "Prefix" /\ found.rt > 0
    /\ found.node # FirstNode(tree[last.n].node)
    /\ Len(children_of(heap, tree[last.n].node[3])) > 3

(***************************************************************************)
(* read_one on bytes: a slot is its header byte followed by as many        *)
(* payload bytes as the low six bits of the header say.                    *)
(***************************************************************************)

\* the longest byte range read
MaxBuf == 6

\* the bytes of the ranges: the headers NONE, INLINE_EMPTY and Inline of
\* length 1 and 2; a payload byte may be any of them
BufBytes ==
    {make_header_byte("None", 0), make_header_byte("Inline", 0),
     make_header_byte("Inline", 1), make_header_byte("Inline", 2)}

Buffers == UNION {[1..m -> BufBytes] : m \in 0..MaxBuf}

\* len: the low six bits of a header byte
len(value) == value % 64

\* FlexRef::bytes of a FlexRef, which is a view of a whole byte range
bytes(x) == TakeBytes(x, len(x[1]) + 1)

\* a read_one that cuts the remainder one byte early
FlexRef_read_one_short(value) ==
    IF Len(value) = 0 THEN [some |-> FALSE, x |-> <<>>, rest |-> <<>>]
    ELSE IF len(value[1]) + 1 > Len(value) THEN [some |-> FALSE, x |-> <<>>, rest |-> <<>>]
    ELSE [some |-> TRUE, x |-> value, rest |-> DropBytes(value, len(value[1]))]

\* FlexRef::read_one: None for an empty range and for a slot that runs past
\* the end, else the FlexRef at the start of the range and what follows it
FlexRef_read_one(value) ==
    IF Len(value) = 0 THEN [some |-> FALSE, x |-> <<>>, rest |-> <<>>]
    ELSE IF len(value[1]) + 1 > Len(value) THEN [some |-> FALSE, x |-> <<>>, rest |-> <<>>]
    ELSE [some |-> TRUE, x |-> value, rest |-> DropBytes(value, len(value[1]) + 1)]

\* TreeNode::read_one: prefix, value and children in this order, each ?
read_one(buffer) ==
    IF ~FlexRef_read_one(buffer).some THEN NoRead.res
    ELSE IF ~FlexRef_read_one(FlexRef_read_one(buffer).rest).some THEN NoRead.res
    ELSE IF ~FlexRef_read_one(
                FlexRef_read_one(FlexRef_read_one(buffer).rest).rest).some
    THEN NoRead.res
    ELSE [some |-> TRUE,
          prefix |-> FlexRef_read_one(buffer).x,
          value |-> FlexRef_read_one(FlexRef_read_one(buffer).rest).x,
          children |-> FlexRef_read_one(
                           FlexRef_read_one(FlexRef_read_one(buffer).rest).rest).x,
          rest |-> FlexRef_read_one(
                       FlexRef_read_one(FlexRef_read_one(buffer).rest).rest).rest]

\* TreeNode::read_one(buffer)
ReadOne(buffer) ==
    /\ Ready /\ ~rd.made
    /\ rd' = [made |-> TRUE, buffer |-> buffer, res |-> read_one(buffer)]
    /\ steps' = steps + 1
    /\ last' = Op("read_one", "", "", "", <<>>, "ok")
    /\ UNCHANGED <<heap, tree, ref, status, blobs, cur, ids, gb, found, own, ms>>

NextRead == \E buffer \in Buffers : ReadOne(buffer)

SpecRead == Init /\ [][NextRead]_vars

\* a whole slot: a header byte and exactly the payload it declares
WholeSlot(x) == x # <<>> /\ Len(x) = len(x[1]) + 1

\* the byte range starts with three whole slots
ThreeSlots(buffer) ==
    \E i, j, k \in 1..Len(buffer) :
        /\ i < j /\ j < k
        /\ WholeSlot(SubSeq(buffer, 1, i))
        /\ WholeSlot(SubSeq(buffer, i + 1, j))
        /\ WholeSlot(SubSeq(buffer, j + 1, k))

\* C28: read_one returns a triple exactly when the range starts with three
\* whole slots; the range is then the bytes of prefix, value and children,
\* in this order, followed by the remainder returned.
C28_ReadOne ==
    rd.made =>
        /\ rd.res.some = ThreeSlots(rd.buffer)
        /\ rd.res.some =>
              /\ WholeSlot(bytes(rd.res.prefix))
              /\ WholeSlot(bytes(rd.res.value))
              /\ WholeSlot(bytes(rd.res.children))
              /\ rd.buffer = bytes(rd.res.prefix) \o bytes(rd.res.value)
                               \o bytes(rd.res.children) \o rd.res.rest

\* a triple with a payload was read and bytes remain behind it
C28_Witness ==
    /\ rd.made /\ rd.res.some /\ rd.res.rest # <<>>
    /\ Len(bytes(rd.res.prefix)) > 1 /\ Len(bytes(rd.res.children)) > 1

(***************************************************************************)
(* owned.rs: a TreeNode of three 8-byte references and the BlobStore its   *)
(* heap-owned fields are attached to and detached from                     *)
(***************************************************************************)

\* the largest number of blobs in the store when an attach starts
MaxStore == 6

\* the deepest node built
MaxDepth == 2

\* the slices nodes are built from: fewer than 7 bytes are stored inline,
\* 7 bytes and more behind an Arc
OwnedSlices == {<<>>, <<1>>, <<1, 2, 3, 4, 5, 6, 7>>}

\* the key a store's numbering starts after, as big-endian u64: 0 (an empty
\* MemStore), 2^48 and 2^56 + 2^48
Bases == {<<0, 0, 0, 0, 0, 0, 0, 0>>, <<0, 1, 0, 0, 0, 0, 0, 0>>,
          <<1, 1, 0, 0, 0, 0, 0, 0>>}

RECURSIVE add_one(_, _)
\* u64 + 1 on big-endian bytes, carrying from byte i leftwards
add_one(b, i) ==
    IF i = 0 THEN b
    ELSE IF b[i] < 255 THEN [b EXCEPT ![i] = @ + 1]
    ELSE add_one([b EXCEPT ![i] = 0], i - 1)

\* MemStore::bytes: the blob stored under the id, or "value not found"
MemStore_bytes(store, id) ==
    IF \E i \in 1..Len(store.data) : store.data[i].id = id
    THEN Some(store.data[CHOOSE i \in 1..Len(store.data) :
                             store.data[i].id = id].data)
    ELSE Nothing

\* the id MemStore::append returns: the largest key, or the start of the
\* numbering in an empty store, plus one
next_id(store) ==
    add_one(IF Len(store.data) = 0 THEN store.base
            ELSE store.data[Len(store.data)].id, 8)

\* MemStore::append
MemStore_append(store, data) ==
    [store EXCEPT !.data = Append(@, [id |-> next_id(store), data |-> data])]

\* FlexRef::none
FlexNone == [k |-> "none", b |-> <<>>, v |-> <<>>]

\* FlexRef::inline_from_slice: the marker (len << 1) | 1 in bytes 0 and 7,
\* the value in bytes 1..=len
inline_from_slice(value) ==
    IF Len(value) < 7
    THEN Some([k |-> "inline",
               b |-> <<2 * Len(value) + 1>> \o value
                     \o SubSeq(<<0, 0, 0, 0, 0, 0>>, 1, 6 - Len(value))
                     \o <<2 * Len(value) + 1>>,
               v |-> <<>>])
    ELSE Nothing

\* FlexRef::owned_from_arc
owned_from_arc(content) == [k |-> "arc", b |-> <<>>, v |-> content]

\* FlexRef::inline_as_ref of an inline reference
inline_as_ref(r) == SubSeq(r.b, 2, (r.b[1] \div 2) + 1)

\* FlexRef::inline_or_owned_from_slice
inline_or_owned_from_slice(value) ==
    IF inline_from_slice(value).some THEN inline_from_slice(value).v
    ELSE owned_from_arc(value)

\* an id reference of the 8 bytes id_from_u64 made
IdOf(b) == [k |-> "id", b |-> b, v |-> <<>>]

\* TreeNode::single
TreeNode_single(key, value) ==
    [prefix |-> inline_or_owned_from_slice(key),
     value |-> inline_or_owned_from_slice(value),
     children |-> FlexNone]

\* TreeNode::new with Some(value) or None and a non-empty children slice
TreeNode_new(key, value, children) ==
    [prefix |-> inline_or_owned_from_slice(key),
     value |-> IF value.some THEN inline_or_owned_from_slice(value.v)
               ELSE FlexNone,
     children |-> IF children = <<>> THEN FlexNone
                  ELSE owned_from_arc(children)]

\* TreePrefix::attach: an Arc is appended to the store and replaced by the
\* id; "id too large" leaves the reference as it was
TreePrefix_attach(r, store) ==
    IF r.k # "arc" THEN [ok |-> TRUE, r |-> r, store |-> store]
    ELSE IF id_from_u64(next_id(store)).some
    THEN [ok |-> TRUE, r |-> IdOf(id_from_u64(next_id(store)).v),
          store |-> MemStore_append(store, r.v)]
    ELSE [ok |-> FALSE, r |-> r, store |-> MemStore_append(store, r.v)]

\* TreeValue::attach
TreeValue_attach(r, store) ==
    IF r.k # "arc" THEN [ok |-> TRUE, r |-> r, store |-> store]
    ELSE IF id_from_u64(next_id(store)).some
    THEN [ok |-> TRUE, r |-> IdOf(id_from_u64(next_id(store)).v),
          store |-> MemStore_append(store, r.v)]
    ELSE [ok |-> FALSE, r |-> r, store |-> MemStore_append(store, r.v)]

\* the reference slice_to_bytes writes at position j of its output
CellAt(nodes, j) ==
    CASE (j - 1) % 3 = 0 -> nodes[(j - 1) \div 3 + 1].prefix
      [] (j - 1) % 3 = 1 -> nodes[(j - 1) \div 3 + 1].value
      [] OTHER -> nodes[(j - 1) \div 3 + 1].children

\* TreeNode::slice_to_bytes: refused when a field is an Arc, else the three
\* references of every node in order
slice_to_bytes(nodes) ==
    IF \E i \in 1..Len(nodes) :
          "arc" \in {nodes[i].prefix.k, nodes[i].value.k, nodes[i].children.k}
    THEN Nothing
    ELSE Some([j \in 1..(3 * Len(nodes)) |-> CellAt(nodes, j)])

\* TreeNode::validate_serialized
validate_serialized(node) ==
    /\ node.prefix.k \in {"inline", "id"}
    /\ node.value.k \in {"inline", "id", "none"}
    /\ node.children.k \in {"id", "none"}

\* slice_cast: every three references are one node
slice_cast(data) ==
    [i \in 1..(Len(data) \div 3) |->
        [prefix |-> data[3 * i - 2], value |-> data[3 * i - 1],
         children |-> data[3 * i]]]

\* TreeNode::nodes_from_bytes: the size is a multiple of a node's and every
\* node is in serialized form
nodes_from_bytes(data) ==
    IF Len(data) % 3 = 0
       /\ \A i \in 1..(Len(data) \div 3) : validate_serialized(slice_cast(data)[i])
    THEN Some(slice_cast(data))
    ELSE Nothing

RECURSIVE TreeNode_attach(_, _), attach_each(_, _, _), attach_next(_, _, _)

\* the loop of TreeChildren::attach over the cloned children, stopping at
\* the first error
attach_each(done, rest, store) ==
    IF rest = <<>> THEN [ok |-> TRUE, nodes |-> done, store |-> store]
    ELSE attach_next(done, rest, TreeNode_attach(Head(rest), store))

attach_next(done, rest, a) ==
    IF a.ok THEN attach_each(Append(done, a.node), Tail(rest), a.store)
    ELSE [ok |-> FALSE, nodes |-> done, store |-> a.store]

\* the end of TreeChildren::attach: the attached children are serialized,
\* appended and replaced by the id
children_append(r, e) ==
    IF ~e.ok \/ ~slice_to_bytes(e.nodes).some
    THEN [ok |-> FALSE, r |-> r, store |-> e.store]
    ELSE IF id_from_u64(next_id(e.store)).some
    THEN [ok |-> TRUE, r |-> IdOf(id_from_u64(next_id(e.store)).v),
          store |-> MemStore_append(e.store, slice_to_bytes(e.nodes).v)]
    ELSE [ok |-> FALSE, r |-> r,
          store |-> MemStore_append(e.store, slice_to_bytes(e.nodes).v)]

\* TreeChildren::attach
TreeChildren_attach(r, store) ==
    IF r.k # "arc" THEN [ok |-> TRUE, r |-> r, store |-> store]
    ELSE children_append(r, attach_each(<<>>, r.v, store))

attach_prefix(st) ==
    [ok |-> TreePrefix_attach(st.node.prefix, st.store).ok,
     node |-> [st.node EXCEPT
                 !.prefix = TreePrefix_attach(st.node.prefix, st.store).r],
     store |-> TreePrefix_attach(st.node.prefix, st.store).store]

attach_value(st) ==
    IF ~st.ok THEN st
    ELSE [ok |-> TreeValue_attach(st.node.value, st.store).ok,
          node |-> [st.node EXCEPT
                      !.value = TreeValue_attach(st.node.value, st.store).r],
          store |-> TreeValue_attach(st.node.value, st.store).store]

attach_children(st) ==
    IF ~st.ok THEN st
    ELSE [ok |-> TreeChildren_attach(st.node.children, st.store).ok,
          node |-> [st.node EXCEPT
                      !.children = TreeChildren_attach(st.node.children, st.store).r],
          store |-> TreeChildren_attach(st.node.children, st.store).store]

\* TreeNode::attach: prefix, value, children, each `?`
TreeNode_attach(node, store) ==
    attach_children(attach_value(attach_prefix(
        [ok |-> TRUE, node |-> node, store |-> store])))

\* TreePrefix::detach: an id is read from the store and becomes inline or
\* owned
TreePrefix_detach(r, store) ==
    IF r.k # "id" THEN [ok |-> TRUE, r |-> r]
    ELSE IF MemStore_bytes(store, id_u64(r.b).v).some
    THEN [ok |-> TRUE,
          r |-> inline_or_owned_from_slice(MemStore_bytes(store, id_u64(r.b).v).v)]
    ELSE [ok |-> FALSE, r |-> r]

\* TreeValue::detach
TreeValue_detach(r, store) ==
    IF r.k # "id" THEN [ok |-> TRUE, r |-> r]
    ELSE IF MemStore_bytes(store, id_u64(r.b).v).some
    THEN [ok |-> TRUE,
          r |-> inline_or_owned_from_slice(MemStore_bytes(store, id_u64(r.b).v).v)]
    ELSE [ok |-> FALSE, r |-> r]

RECURSIVE TreeNode_detach(_, _, _), detach_each(_, _, _), detach_next(_, _, _, _)

\* the loop of TreeChildren::detach over the children read
detach_each(done, rest, store) ==
    IF rest = <<>> THEN [ok |-> TRUE, nodes |-> done]
    ELSE detach_next(done, rest, store, TreeNode_detach(Head(rest), store, TRUE))

detach_next(done, rest, store, d) ==
    IF d.ok THEN detach_each(Append(done, d.node), Tail(rest), store)
    ELSE [ok |-> FALSE, nodes |-> done]

\* the children of TreeChildren::detach once the blob is read
children_read(r, store, recursive, data) ==
    IF ~data.some \/ ~nodes_from_bytes(data.v).some THEN [ok |-> FALSE, r |-> r]
    ELSE IF ~recursive
    THEN [ok |-> TRUE, r |-> owned_from_arc(nodes_from_bytes(data.v).v)]
    ELSE IF detach_each(<<>>, nodes_from_bytes(data.v).v, store).ok
    THEN [ok |-> TRUE,
          r |-> owned_from_arc(
                    detach_each(<<>>, nodes_from_bytes(data.v).v, store).nodes)]
    ELSE [ok |-> FALSE, r |-> r]

\* TreeChildren::detach
TreeChildren_detach(r, store, recursive) ==
    IF r.k # "id" THEN [ok |-> TRUE, r |-> r]
    ELSE children_read(r, store, recursive, MemStore_bytes(store, id_u64(r.b).v))

detach_prefix(st, store) ==
    [ok |-> TreePrefix_detach(st.node.prefix, store).ok,
     node |-> [st.node EXCEPT !.prefix = TreePrefix_detach(st.node.prefix, store).r]]

detach_value(st, store) ==
    IF ~st.ok THEN st
    ELSE [ok |-> TreeValue_detach(st.node.value, store).ok,
          node |-> [st.node EXCEPT
                      !.value = TreeValue_detach(st.node.value, store).r]]

detach_children(st, store, recursive) ==
    IF ~st.ok THEN st
    ELSE [ok |-> TreeChildren_detach(st.node.children, store, recursive).ok,
          node |-> [st.node EXCEPT
                      !.children =
                          TreeChildren_detach(st.node.children, store, recursive).r]]

\* TreeNode::detach: prefix, value, children, each `?`
TreeNode_detach(node, store, recursive) ==
    detach_children(detach_value(detach_prefix(
        [ok |-> TRUE, node |-> node], store), store), store, recursive)

\* TreePrefix::load
TreePrefix_load(r, store) ==
    CASE r.k = "inline" -> Some(inline_as_ref(r))
      [] r.k = "arc" -> Some(r.v)
      [] OTHER -> MemStore_bytes(store, id_u64(r.b).v)

\* TreeValue::load: Ok(None) for none
TreeValue_load(r, store) ==
    CASE r.k = "inline" -> Some(Some(inline_as_ref(r)))
      [] r.k = "arc" -> Some(Some(r.v))
      [] r.k = "id" ->
            IF MemStore_bytes(store, id_u64(r.b).v).some
            THEN Some(MemStore_bytes(store, id_u64(r.b).v)) ELSE Nothing
      [] OTHER -> Some(Nothing)

\* TreeChildren::load: the child nodes, an empty slice for none
TreeChildren_load(r, store) ==
    CASE r.k = "arc" -> Some(r.v)
      [] r.k = "id" ->
            IF MemStore_bytes(store, id_u64(r.b).v).some
            THEN nodes_from_bytes(MemStore_bytes(store, id_u64(r.b).v).v)
            ELSE Nothing
      [] OTHER -> Some(<<>>)

RECURSIVE Loaded(_, _)
\* what the three fields of a node load to, the child nodes loaded in turn
Loaded(node, store) ==
    [prefix |-> TreePrefix_load(node.prefix, store),
     value |-> TreeValue_load(node.value, store),
     children |->
        IF TreeChildren_load(node.children, store).some
        THEN Some([i \in 1..Len(TreeChildren_load(node.children, store).v) |->
                     Loaded(TreeChildren_load(node.children, store).v[i], store)])
        ELSE Nothing]

RECURSIVE Depth(_)
\* the levels of a node built by single and new
Depth(node) ==
    IF node.children.k # "arc" THEN 1 ELSE 1 + Depth(node.children.v[1])

\* the end of a call on the owned node
OwnedDone(o, op, res) ==
    /\ own' = o
    /\ steps' = steps + 1
    /\ last' = Op(op, "", "", "", <<>>, res)
    /\ UNCHANGED <<heap, tree, ref, status, blobs, cur, ids, gb, found, rd, ms>>

\* a store whose numbering starts after base, and TreeNode::single(key, value)
OwnedSingle(base, key, value) ==
    /\ Ready /\ own.st = "none"
    /\ OwnedDone([NoOwned EXCEPT !.st = "built",
                                 !.node = TreeNode_single(key, value),
                                 !.store = [base |-> base, data |-> <<>>]],
                 "single", "ok")

\* TreeNode::new(key, value, &[node; n]) around the node built so far
OwnedNew(key, value, n) ==
    /\ Ready /\ own.st = "built" /\ Depth(own.node) < MaxDepth
    /\ OwnedDone([own EXCEPT !.node = TreeNode_new(key, value,
                                          [i \in 1..n |-> own.node])],
                 "new", "ok")

\* node.attach(&mut store)
OwnedAttach ==
    /\ Ready /\ own.st \in {"built", "detached"}
    /\ Len(own.store.data) < MaxStore
    /\ OwnedDone([own EXCEPT
                    !.st = IF TreeNode_attach(own.node, own.store).ok
                           THEN "attached" ELSE "attach_failed",
                    !.node = TreeNode_attach(own.node, own.store).node,
                    !.store = TreeNode_attach(own.node, own.store).store,
                    !.before = Loaded(own.node, own.store)],
                 "attach",
                 IF TreeNode_attach(own.node, own.store).ok THEN "ok" ELSE "err")

\* node.detach(&store, recursive)
OwnedDetach(recursive) ==
    /\ Ready /\ own.st = "attached"
    /\ OwnedDone([own EXCEPT
                    !.st = IF TreeNode_detach(own.node, own.store, recursive).ok
                           THEN "detached" ELSE "detach_failed",
                    !.node = TreeNode_detach(own.node, own.store, recursive).node,
                    !.recursive = recursive],
                 "detach",
                 IF TreeNode_detach(own.node, own.store, recursive).ok
                 THEN "ok" ELSE "err")

NextOwned ==
    \/ \E base \in Bases, key \in OwnedSlices, value \in OwnedSlices :
          OwnedSingle(base, key, value)
    \/ \E key \in OwnedSlices, value \in {Nothing} \cup {Some(x) : x \in OwnedSlices},
          n \in 1..2 : OwnedNew(key, value, n)
    \/ OwnedAttach
    \/ \E recursive \in BOOLEAN : OwnedDetach(recursive)

SpecOwned == Init /\ [][NextOwned]_vars

\* no field of the node is heap-owned
NoArcField(node) ==
    /\ node.prefix.k \in {"inline", "id"}
    /\ node.value.k \in {"none", "inline", "id"}
    /\ node.children.k \in {"none", "id"}

\* C29: after a successful attach no field of the node is heap-owned, and a
\* following recursive detach succeeds and leaves a node whose prefix, value
\* and children load to what they loaded to before the attach
C29_AttachDetach ==
    /\ (own.st = "attached") => NoArcField(own.node)
    /\ (own.recursive /\ own.st \in {"detached", "detach_failed"}) =>
          /\ own.st = "detached"
          /\ Loaded(own.node, own.store) = own.before

(***************************************************************************)
(* merge_state.rs: VecMergeState, the merge state that builds a new vec    *)
(***************************************************************************)

\* the longest slice given to merge
MaxSide == 2

\* the ids the stores ab and bb resolve
StoreIds == {7}

\* the nodes of side a: key and id of its data in ab (0: held in memory);
\* id 9 is not in the store
ANodes == {[key |-> 1, id |-> 0], [key |-> 2, id |-> 7], [key |-> 3, id |-> 9]}

\* the nodes of side b
BNodes == {[key |-> 11, id |-> 0], [key |-> 12, id |-> 7], [key |-> 13, id |-> 9]}

\* the slices of up to MaxSide nodes
SlicesOf(S) == UNION {[1..n -> S] : n \in 0..MaxSide}

\* TreeNode::detached(store): a node in memory is cloned, a node in the store
\* is read, which fails for an id the store does not resolve
TreeNode_detached(e) ==
    IF e.id = 0 \/ e.id \in StoreIds THEN Some([e EXCEPT !.id = 0]) ELSE Nothing

\* SliceIterator::take_front(n): the first n elements, which the iterator
\* moves past
take_front(s, n) == SubSeq(s, 1, n)

\* SliceIterator::drop_front(n): the iterator moves past n elements
drop_front(s, n) == SubSeq(s, n + 1, Len(s))

RECURSIVE push_detached(_, _)
\* the loop of advance_a and advance_b with take: every element is detached
\* and pushed to r, the first failure sets err and ends the call with false
push_detached(m, es) ==
    IF es = <<>> THEN [m EXCEPT !.log = Append(@, TRUE)]
    ELSE IF TreeNode_detached(Head(es)).some
    THEN push_detached([m EXCEPT !.r = Append(@, TreeNode_detached(Head(es)).v)],
                       Tail(es))
    ELSE [m EXCEPT !.err = Some(Head(es).key), !.log = Append(@, FALSE)]

\* advance_a with a broken test of take: skipped elements are pushed too
advance_a_always_taking(m, n, take) ==
    push_detached([m EXCEPT !.a = drop_front(@, n)], take_front(m.a, n))

\* VecMergeState::advance_a; the value returned is appended to log
advance_a(m, n, take) ==
    IF take
    THEN push_detached([m EXCEPT !.a = drop_front(@, n)], take_front(m.a, n))
    ELSE [m EXCEPT !.a = drop_front(@, n), !.log = Append(@, TRUE)]

\* VecMergeState::advance_b
advance_b(m, n, take) ==
    IF take
    THEN push_detached([m EXCEPT !.b = drop_front(@, n)], take_front(m.b, n))
    ELSE [m EXCEPT !.b = drop_front(@, n), !.log = Append(@, TRUE)]

\* VecMergeState::into_vec
into_vec(m) ==
    IF m.err.some THEN [ok |-> FALSE, v |-> m.err.v] ELSE [ok |-> TRUE, v |-> m.r]

\* the call with the value it returned in place of the bare value
Logged(m, side, n, take) ==
    [m EXCEPT !.log[Len(m.log)] =
        [side |-> side, n |-> n, take |-> take, ret |-> m.log[Len(m.log)]]]

\* the end of a call on the merge state
MergeDone(m, op, res) ==
    /\ ms' = m
    /\ steps' = steps + 1
    /\ last' = Op(op, "", "", "", <<>>, res)
    /\ UNCHANGED <<heap, tree, ref, status, blobs, cur, ids, gb, found, rd, own>>

\* VecMergeState::merge up to o.merge: new(a, ab, b, bb, Vec::new())
MergeNew(a, b) ==
    /\ Ready /\ ms.st = "none"
    /\ MergeDone([NoMerge EXCEPT !.st = "merging", !.a = a, !.b = b,
                                 !.a0 = a, !.b0 = b], "merge", "ok")

\* the operation calls advance_a(n, take); after false it makes no more calls
AdvanceA(n, take) ==
    /\ Ready /\ ms.st = "merging" /\ n <= Len(ms.a)
    /\ MergeDone([Logged(advance_a(ms, n, take), "a", n, take) EXCEPT
                    !.st = IF advance_a(ms, n, take).err.some
                           THEN "aborted" ELSE "merging"],
                 "advance_a",
                 IF advance_a(ms, n, take).err.some THEN "false" ELSE "true")

\* the operation calls advance_b(n, take)
AdvanceB(n, take) ==
    /\ Ready /\ ms.st = "merging" /\ n <= Len(ms.b)
    /\ MergeDone([Logged(advance_b(ms, n, take), "b", n, take) EXCEPT
                    !.st = IF advance_b(ms, n, take).err.some
                           THEN "aborted" ELSE "merging"],
                 "advance_b",
                 IF advance_b(ms, n, take).err.some THEN "false" ELSE "true")

\* o.merge returns and merge returns state.into_vec()
MergeReturn ==
    /\ Ready /\ ms.st \in {"merging", "aborted"}
    /\ MergeDone([ms EXCEPT !.st = "done", !.res = into_vec(ms)],
                 "into_vec", IF into_vec(ms).ok THEN "ok" ELSE "err")

NextMerge ==
    \/ \E a \in SlicesOf(ANodes), b \in SlicesOf(BNodes) : MergeNew(a, b)
    \/ \E n \in 0..MaxSide, take \in BOOLEAN : AdvanceA(n, take)
    \/ \E n \in 0..MaxSide, take \in BOOLEAN : AdvanceB(n, take)
    \/ MergeReturn

SpecMerge == Init /\ [][NextMerge]_vars

RECURSIVE Consumed(_, _)
\* the elements of a side the first k calls were told to consume
Consumed(side, k) ==
    IF k = 0 THEN 0
    ELSE Consumed(side, k - 1) + (IF ms.log[k].side = side THEN ms.log[k].n ELSE 0)

\* the elements call k was told to consume, from the slice merge was given
CallElems(k) ==
    SubSeq(IF ms.log[k].side = "a" THEN ms.a0 ELSE ms.b0,
           Consumed(ms.log[k].side, k - 1) + 1, Consumed(ms.log[k].side, k))

\* call k was told to take an element that cannot be detached
CallFails(k) ==
    /\ ms.log[k].take
    /\ \E i \in 1..Len(CallElems(k)) : CallElems(k)[i].id \notin StoreIds \cup {0}

RECURSIVE TakenUpTo(_)
\* the keys of the elements the first k calls were told to take, in call order
TakenUpTo(k) ==
    IF k = 0 THEN <<>>
    ELSE TakenUpTo(k - 1)
         \o (IF ms.log[k].take
             THEN [i \in 1..Len(CallElems(k)) |-> CallElems(k)[i].key]
             ELSE <<>>)

\* C30: every advance call consumes its n elements, taken or skipped; a call
\* returns false exactly when detaching one of its taken elements fails;
\* merge then returns the error, and otherwise exactly the taken elements,
\* detached, in call order and in each side's order
C30_MergeResult ==
    /\ ms.a = SubSeq(ms.a0, Consumed("a", Len(ms.log)) + 1, Len(ms.a0))
    /\ ms.b = SubSeq(ms.b0, Consumed("b", Len(ms.log)) + 1, Len(ms.b0))
    /\ \A k \in 1..Len(ms.log) : ms.log[k].ret = ~CallFails(k)
    /\ (ms.st = "done") =>
          IF \E k \in 1..Len(ms.log) : CallFails(k)
          THEN ~ms.res.ok
          ELSE /\ ms.res.ok
               /\ [i \in 1..Len(ms.res.v) |-> ms.res.v[i].key] = TakenUpTo(Len(ms.log))
               /\ \A i \in 1..Len(ms.res.v) : ms.res.v[i].id = 0

\* merge returned a result that takes from both sides, a first and b between
\* two takes of a, with elements skipped on both sides
C30_Witness ==
    /\ ms.st = "done" /\ ms.res.ok /\ Len(ms.res.v) >= 2
    /\ \E j, k \in 1..Len(ms.log) :
          /\ j < k /\ ms.log[j].side = "b" /\ ms.log[j].take /\ ms.log[j].n > 0
          /\ ms.log[k].side = "a" /\ ms.log[k].take /\ ms.log[k].n > 0
    /\ \E k \in 1..Len(ms.log) : ~ms.log[k].take /\ ms.log[k].n > 0

====
